---- MODULE Spec2Model ----
(***************************************************************************)
(* A model of the GPU execution-planning core of hedge:                    *)
(*   - make_gpu_partition_greedy   (hedge/backends/cuda/__init__.py)       *)
(*   - Code.__init__, Code.execute (src/python/compiler.py)                *)
(*   - the flux batching of OperatorCompilerBase.__call__                  *)
(*                                 (src/python/compiler.py)                *)
(*   - GPUFaceStorage and Discretization._build_face_storage_info          *)
(*                                 (hedge/backends/cuda/__init__.py)       *)
(*   - the stream pool of Discretization and the futures that use it       *)
(*                                 (hedge/backends/cuda/__init__.py)       *)
(* Each part has its own specification over the shared variables; the      *)
(* variables of the other parts stay at their idle values.                 *)
(***************************************************************************)
EXTENDS Integers, Sequences, FiniteSets, TLC

\* ------------------------------------------------------------------ bounds
\* largest number of mesh elements of the enumerated adjacency graphs
MaxNodes == 3
\* largest max_block_size handed to the partitioner
MaxBlockSize == 3

\* largest number of calls of the partitioner on the same arguments
MaxCalls == 2
\* number of instructions of the enumerated Code objects
MaxInsns == 3
\* largest number of flux expressions in a compiled operator template
MaxFluxes == 3

\* number of element faces (el, face_number) of the enumerated meshes
MaxFaces == 4
\* largest number of interior face pairs of the face group
MaxFacePairs == 2
\* largest number of boundary face pairs over all boundary face groups
MaxBdryFaces == 2
\* largest number of boundary face groups
MaxBdryGroups == 2
\* largest aligned number of nodes per face
MaxAlignedFnc == 2
\* largest number of GPUFaceStorage objects made outside the builder
MaxLooseStorages == 1
\* largest number of futures made on the stream pool
MaxStreamFutures == 3

\* largest number of mesh elements handed to _build_blocks
MaxBlockEls == 4
\* largest given.microblock.elements
MaxMicroblockEls == 2
\* largest flux_plan.microblocks_per_block()
MaxMicroblocksPerBlock == 2
\* largest number of names one instruction assigns
MaxBatchNames == 3

\* a template of fewer fluxes has further components, up to this many in all
MaxExtraExprs == 2
\* largest number of calls of one compiler instance
MaxCompileCalls == 2

\* Python's None, for node-valued variables
None == -1

\* ---------------------------------------------------------------- variables
VARIABLES
    \* make_gpu_partition_greedy: arguments
    adjgraph,        \* element id -> set of neighbour element ids
    max_block_size,
    order,           \* iteration order of Python sets of element ids
    \* make_gpu_partition_greedy: locals
    avail_nodes,
    next_node,
    partition,
    blocks,
    queue,           \* bfs: the frontier list
    result,          \* bfs: the block being grown
    ppc,             \* position: "idle", "outer", "bfs"
    returned,        \* the (partition, blocks) pairs returned by the calls so far
    \* Code: the instructions (1..MaxInsns; instruction i assigns the name i,
    \* the name 0 is a field bound by the caller)
    deps,            \* insn -> get_dependencies(), a set of names
    priority,        \* insn -> its priority
    yields_future,   \* insn -> whether its executor method returns a Future
    \* Code: what __init__ derives
    insns_depending_on,
    initial_exec_front,
    \* Code.execute: the mapper's context and the locals
    context,         \* name -> value, Unbound when the name is not in the dict
    exec_front,
    futures,         \* list of [target, value] of the unresolved futures
    last_insn,       \* insn of line 279: the instruction picked last, None before
    executed,        \* the instructions executed by this call
    epc,             \* position: "idle", "loop", "pick"
    results,         \* the context the call before ended with, in a list
    \* OperatorCompilerBase.__call__: the operator template (the fluxes are
    \* 1..n; -g is the operand expression that holds the flux g; n+f is the
    \* FluxRecord object made for the flux f)
    flux_operands,   \* flux -> its operand expressions (interior and boundary deps)
    flux_kind,       \* flux -> the kind of its FluxRecord
    \* OperatorCompilerBase.__call__: attributes and locals
    flux_queue,      \* list of FluxRecords
    fr_dependencies, \* FluxRecord -> its dependencies attribute
    flux_batches,    \* list of FluxBatch [kind, flux_exprs]
    admissible_deps,
    cpc,             \* position: "idle", "batch", "done", "error" (no flux
                     \* evaluation order), "overflow" (recursion depth
                     \* exceeded), "assert" (line 219), "raised"
    optemplate,      \* the expr of __call__: the components of the template
    code,            \* self.code: the list of instruction records
    assigned_var_count,
    expr_to_var,     \* expression -> Variable
    code_result,     \* the result of the Code returned
    compile_calls,   \* the calls of the compiler instance so far
    \* _build_face_storage_info: the mesh data and the locals
    aligned_fnc,     \* devdata.align_dtype(ldis.face_node_count(), float_size)
    storages,        \* the GPUFaceStorage objects, in order of creation; an
                     \* object is named by its index in this list
    fsm,             \* (el, face_number) -> GPUInteriorFaceStorage
    aligned_boundary_floats,
    int_pairs_done,  \* interior face pairs processed so far
    bdry_pairs_done, \* boundary face pairs processed so far
    bdry_groups_done,\* boundary face groups processed so far
    face_info,       \* the FaceStorageInfo returned, in a list
    last_set,        \* the (self, opp) of the set_opposite call made last
    fpc,             \* position: "idle", "interior", "boundary", "done", "error"
    \* Discretization: the stream pool, the device streams and the futures
    stream_pool,     \* list of streams
    stream_busy,     \* stream -> work enqueued on it has not completed;
                     \* the streams are named 1, 2, ... in order of creation
    stream_futures,  \* the futures made so far: [kind, stream, resolved]
    \* Discretization._build_blocks: what it reads and its locals
    el_partition,    \* self.partition: element id -> block number
    mb_elements,     \* given.microblock.elements
    microblocks_per_block, \* flux_plan.microblocks_per_block()
    block_el_numbers,\* block number -> list of element ids
    gpu_blocks,      \* the GPUBlock objects made so far
    bpc,             \* position: "idle", "make", "done", "error"
    \* one instruction run by lines 282-286 of Code.execute
    mapper,          \* the module of the ExecutionMapper
    m_insn,          \* the instruction: [kind, names]
    m_iterable,      \* whether the executor method returned an iterable
    m_returned,      \* the items of what the executor method returned
    m_pos,           \* the items the for statement has taken
    m_context,       \* exec_mapper.context: the set of [key, value] bound
    mpc,             \* position: "idle", "iterate", "done", "error"
    m_error          \* the exception raised, "" when none

partvars == <<adjgraph, max_block_size, order, avail_nodes, next_node,
              partition, blocks, queue, result, ppc, returned>>

execvars == <<deps, priority, yields_future, insns_depending_on, initial_exec_front,
              context, exec_front, futures, last_insn, executed, epc, results>>

compvars == <<flux_operands, flux_kind, flux_queue, fr_dependencies, flux_batches,
              admissible_deps, cpc, optemplate, code, assigned_var_count,
              expr_to_var, code_result, compile_calls>>

facevars == <<aligned_fnc, storages, fsm, aligned_boundary_floats, int_pairs_done,
              bdry_pairs_done, bdry_groups_done, face_info, last_set, fpc>>

streamvars == <<stream_pool, stream_busy, stream_futures>>

blockvars == <<el_partition, mb_elements, microblocks_per_block, block_el_numbers,
               gpu_blocks, bpc>>

mappervars == <<mapper, m_insn, m_iterable, m_returned, m_pos, m_context, mpc,
                m_error>>

vars == <<partvars, execvars, compvars, facevars, streamvars, blockvars,
          mappervars>>

\* ------------------------------------------------------------ helpers
\* list.pop that leaves the entry in the list
KeepAt(s, k) == s

\* the sequence s without its k-th entry (list.pop(k-1))
RemoveAt(s, k) == [j \in 1..(Len(s) - 1) |-> IF j < k THEN s[j] ELSE s[j + 1]]

\* all orders in which a host may iterate over a set of element ids
Perms(S) ==
    {p \in [1..Cardinality(S) -> S] : \A a, b \in 1..Cardinality(S) : p[a] = p[b] => a = b}

\* iterating a Python set of element ids: its members, in the host's order
SetIter(S) == SelectSeq(order, LAMBDA x : x \in S)

\* argmax2 keeping the last of several maximal values
argmax2_last(pairs) ==
    LET k == CHOOSE k \in 1..Len(pairs) :
                 /\ \A j \in 1..Len(pairs) : pairs[j][2] <= pairs[k][2]
                 /\ \A j \in (k + 1)..Len(pairs) : pairs[j][2] < pairs[k][2]
    IN pairs[k][1]

\* pytools.argmax2 over a sequence of <<arg, value>> pairs: the first arg
\* whose value is maximal (a later pair replaces it only if strictly larger)
argmax2(pairs) ==
    LET k == CHOOSE k \in 1..Len(pairs) :
                 /\ \A j \in 1..Len(pairs) : pairs[j][2] <= pairs[k][2]
                 /\ \A j \in 1..(k - 1) : pairs[j][2] < pairs[k][2]
    IN pairs[k][1]

\* ------------------------------------------------- adjacency graphs (input)
EdgesOver(n) == {e \in SUBSET (0..(n - 1)) : Cardinality(e) = 2}

\* the symmetric, loop-free adjacency graphs over the element ids 0..n-1
SymGraphs(n) ==
    {[a \in 0..(n - 1) |-> {b \in 0..(n - 1) : {a, b} \in E}] : E \in SUBSET EdgesOver(n)}

\* the 1-D mesh of six elements: the path 0-1-2-3-4-5
PathGraph == [a \in 0..5 |-> {b \in 0..5 : b = a + 1 \/ a = b + 1}]

Graphs == UNION {SymGraphs(n) : n \in 1..MaxNodes} \cup {PathGraph}

\* ------------------------------------------------ make_gpu_partition_greedy
\* first(iterable): the first item, None when there is none
first(s) == IF s = <<>> THEN None ELSE Head(s)

\* bfs.num_connections_to_result, for the block res grown so far
num_connections_to_result(node, res) ==
    Cardinality({rn \in res : node \in adjgraph[rn]})

\* the seed of the outer loop when bfs left no neighbour over: the first node
\* of maximal degree among the unassigned ones
SeedNode == argmax2([k \in 1..Len(SetIter(avail_nodes)) |->
                <<SetIter(avail_nodes)[k], Cardinality(adjgraph[SetIter(avail_nodes)[k]])>>])

\* the refill of line 183 taking a node whether or not it is unassigned
AnyNode(avail) == Head(order)

\* the node iter(avail_nodes).next() yields
AnyAvail(avail) == Head(SetIter(avail))

\* the neighbours appended to the frontier after curr_node joined the block
Enqueued(curr_node) == SetIter(adjgraph[curr_node])

\* the test of line 172 left out: every popped node joins the block
IsAvailAlways(node, avail) == TRUE

\* line 172: curr_node in avail_nodes
IsAvail(node, avail) == node \in avail

\* the size test of line 175 off by one
BlockFullLate(res) == Cardinality(res) = max_block_size + 1

\* line 175: the block has reached its size
BlockFull(res) == Cardinality(res) = max_block_size

\* the block list kept from one call to the next
StaleBlocks == blocks

\* the block list at the start of a call
FreshBlocks == <<>>

\* every block recorded under the id 0
FirstBlockId(blks) == 0

\* line 201: the id len(blocks) under which the elements of a block are
\* recorded, blks being the blocks appended before
NewBlockId(blks) == Len(blks)

\* lines 187-192: a call starts
Call ==
    /\ ppc = "idle"
    /\ Len(returned) < MaxCalls
    /\ avail_nodes' = DOMAIN adjgraph
    /\ next_node' = None
    /\ partition' = [el \in DOMAIN adjgraph |-> 0]
    /\ blocks' = FreshBlocks
    /\ ppc' = "outer"
    /\ UNCHANGED <<adjgraph, max_block_size, order, queue, result, returned>>
    /\ UNCHANGED <<execvars, compvars, facevars, streamvars, blockvars, mappervars>>

\* lines 193-198: the outer loop picks the seed and calls bfs
StartBlock ==
    /\ ppc = "outer"
    /\ avail_nodes # {}
    /\ LET top_node == IF next_node = None THEN SeedNode ELSE next_node
       IN /\ next_node' = top_node
          /\ queue' = <<top_node>>
    /\ result' = {}
    /\ ppc' = "bfs"
    /\ UNCHANGED <<adjgraph, max_block_size, order, avail_nodes, partition, blocks, returned>>
    /\ UNCHANGED <<execvars, compvars, facevars, streamvars, blockvars, mappervars>>

\* bfs returns (res, nxt); lines 198-202 record the block
BfsReturn(avail, q, res, nxt) ==
    /\ avail_nodes' = avail
    /\ queue' = q
    /\ result' = res
    /\ next_node' = nxt
    /\ partition' = [el \in DOMAIN partition |->
                        IF el \in res THEN NewBlockId(blocks) ELSE partition[el]]
    /\ blocks' = Append(blocks, res)
    /\ ppc' = "outer"

\* bfs goes round its loop once more
BfsContinue(avail, q, res) ==
    /\ avail_nodes' = avail
    /\ queue' = q
    /\ result' = res
    /\ ppc' = "bfs"
    /\ UNCHANGED <<next_node, partition, blocks>>

\* lines 182-183 left out: an empty frontier ends the block
BfsNoRefill(avail, q, res) ==
    IF q = <<>>
    THEN BfsReturn(avail, q, res, None)
    ELSE BfsContinue(avail, q, res)

\* lines 180-185: the frontier ran empty
BfsRefill(avail, q, res) ==
    IF q = <<>>
    THEN IF avail # {}
         THEN BfsContinue(avail, Append(q, AnyAvail(avail)), res)
         ELSE BfsReturn(avail, q, res, None)
    ELSE BfsContinue(avail, q, res)

\* lines 166-185: one round of the loop of bfs
BfsStep ==
    /\ ppc = "bfs"
    /\ LET curr_node_idx == argmax2([k \in 1..Len(queue) |->
                                <<k, num_connections_to_result(queue[k], result)>>])
           curr_node == queue[curr_node_idx]
           q1 == RemoveAt(queue, curr_node_idx)
       IN IF IsAvail(curr_node, avail_nodes)
          THEN LET avail1 == avail_nodes \ {curr_node}
                   res1 == result \cup {curr_node}
               IN IF BlockFull(res1)
                  THEN BfsReturn(avail1, q1, res1,
                                 first(SelectSeq(q1, LAMBDA node : node \in avail1)))
                  ELSE BfsRefill(avail1, q1 \o Enqueued(curr_node), res1)
          ELSE BfsRefill(avail_nodes, q1, result)
    /\ UNCHANGED <<adjgraph, max_block_size, order, returned>>
    /\ UNCHANGED <<execvars, compvars, facevars, streamvars, blockvars, mappervars>>

\* lines 193, 204: no unassigned node is left, the call returns
PartitionReturn ==
    /\ ppc = "outer"
    /\ avail_nodes = {}
    /\ returned' = Append(returned, <<partition, blocks>>)
    /\ ppc' = "idle"
    /\ UNCHANGED <<adjgraph, max_block_size, order, avail_nodes, next_node,
                   partition, blocks, queue, result>>
    /\ UNCHANGED <<execvars, compvars, facevars, streamvars, blockvars, mappervars>>

\* ------------------------------------------------------------ Code (input)
Insns == 1..MaxInsns
\* the names the instructions assign (instruction i assigns the name i)
GeneratedNames == Insns
\* the field the caller binds
FieldName == 0
Names == {FieldName} \cup GeneratedNames

\* the priorities of the instruction classes: Instruction.priority and
\* FluxReceiveBatchAssign.priority
Priorities == {0, -1}

\* Instruction.get_assignees
get_assignees(insn) == {insn}

\* the dependency sets of the enumerated Code objects: an instruction reads
\* names of instructions before it in the list, or else the caller's field;
\* the first instruction may instead read the name of the last one, which
\* closes a cycle when the last one reads (transitively) from the first
DependencySets ==
    {[i \in Insns |-> IF g[i] = {} THEN {FieldName} ELSE g[i]] :
        g \in {h \in [Insns -> SUBSET GeneratedNames] :
                  \A i \in Insns : \/ h[i] \subseteq 1..(i - 1)
                                   \/ i = 1 /\ h[i] = {MaxInsns}}}

\* a value is the term that was computed, as the preorder list of its symbols
Unbound == <<>>
FieldValue == <<FieldName>>

RECURSIVE FlatArgs(_, _)
FlatArgs(S, ctx) ==
    IF S = {} THEN <<>>
    ELSE LET d == CHOOSE d \in S : \A e \in S : d <= e
         IN ctx[d] \o FlatArgs(S \ {d}, ctx)

\* what the executor method of insn computes from the context it reads
Eval(insn, ctx) == <<insn>> \o FlatArgs(deps[insn], ctx)

\* --------------------------------------------------------- Code.__init__
\* lines 217-223: name -> the instructions that depend on it (empty: no key)
InsnsDependingOn(d) == [name \in Names |-> {insn \in Insns : name \in d[insn]}]

\* lines 225-227
insn_generated_vars == UNION {get_assignees(insn) : insn \in Insns}

\* the test of line 230 left out: every instruction starts ready
InitialExecFrontAll(d) == Insns

\* line 230 testing for no dependency at all
InitialExecFrontNoDeps(d) == {insn \in Insns : d[insn] = {}}

\* lines 229-231
InitialExecFront(d) == {insn \in Insns : d[insn] \cap insn_generated_vars = {}}

\* ---------------------------------------------------------- Code.execute
\* any() in the place of all() in lines 259-260
DepsAvailableAny(cand_insn, ctx) == \E dep \in deps[cand_insn] : ctx[dep] # Unbound

\* lines 259-260: all(dep.name in exec_mapper.context for dep in ...)
DepsAvailable(cand_insn, ctx) == \A dep \in deps[cand_insn] : ctx[dep] # Unbound

\* make_available without the lookup of line 251: every instruction whose
\* dependencies are bound is put into the ready set
make_available_any(target, value, st) ==
    LET ctx1 == [st.ctx EXCEPT ![target] = value]
    IN [ctx |-> ctx1,
        front |-> st.front \cup {cand_insn \in Insns : DepsAvailable(cand_insn, ctx1)}]

\* lines 245-261: make_available on the state st = [ctx, front]
make_available(target, value, st) ==
    LET ctx1 == [st.ctx EXCEPT ![target] = value]
    IN [ctx |-> ctx1,
        front |-> st.front \cup {cand_insn \in insns_depending_on[target] :
                                    /\ cand_insn \notin st.front
                                    /\ DepsAvailable(cand_insn, ctx1)}]

\* line 272 left out: a future that reports ready is not made available
PollNothing(i, futs, ready, st) == st

\* lines 268-275: the futures of the list futs whose index is in ready report
\* is_ready(); each is called and made available, in list order
RECURSIVE PollFrom(_, _, _, _)
PollFrom(i, futs, ready, st) ==
    IF i > Len(futs) THEN st
    ELSE IF i \in ready
         THEN PollFrom(i + 1, futs, ready,
                       make_available(futs[i].target, futs[i].value, st))
         ELSE PollFrom(i + 1, futs, ready, st)

\* line 273 left out: the futures that reported ready stay in the list too
StillPendingAll(i, futs, ready) == futs

\* lines 273-275: the futures that did not report ready stay, in list order
RECURSIVE StillPending(_, _, _)
StillPending(i, futs, ready) ==
    IF i > Len(futs) THEN <<>>
    ELSE IF i \in ready
         THEN StillPending(i + 1, futs, ready)
         ELSE <<futs[i]>> \o StillPending(i + 1, futs, ready)

\* argmax2 in the place of argmin2 in line 279
argmax2_front(front) == {insn \in front : \A other \in front : priority[insn] >= priority[other]}

\* line 279: argmin2 over the set exec_front yields the first instruction of
\* least priority in the set's iteration order, which the hashes of the
\* instruction objects decide: any instruction of least priority
argmin2_front(front) == {insn \in front : \A other \in front : priority[insn] <= priority[other]}

\* futures.pop(0) in the place of futures.pop()
PopIndexOldest(futs) == 1

\* line 290: futures.pop() takes the entry at this (1-based) index
PopIndex(futs) == Len(futs)

\* futures[-1] in the place of futures.pop(): the entry stays in the list
AfterPopPeek(futs) == futs

\* line 290: the list futures.pop() leaves
AfterPop(futs) == RemoveAt(futs, PopIndex(futs))

\* the bindings the executor's mapper starts from: Executor.__call__
InitialContext == [name \in Names |-> IF name = FieldName THEN FieldValue ELSE Unbound]

\* line 242: the ready set a call starts from
CopyOfFront(front) == front

\* line 242 without .copy(): exec_front is self.initial_exec_front itself
InitialFrontAliased(initial, front) == front

\* line 242: exec_front is a set of its own, so self.initial_exec_front is
\* what it was after exec_front.add (line 261) and exec_front.remove (line
\* 280) made exec_front the set front
InitialFrontAfter(initial, front) == initial

\* Executor.__call__ and lines 242-243: a call starts
Execute ==
    /\ epc = "idle"
    /\ context' = InitialContext
    /\ exec_front' = CopyOfFront(initial_exec_front)
    /\ futures' = <<>>
    /\ last_insn' = None
    /\ executed' = {}
    /\ epc' = "loop"
    /\ UNCHANGED <<deps, priority, yields_future, insns_depending_on,
                   initial_exec_front, results>>
    /\ UNCHANGED <<partvars, compvars, facevars, streamvars, blockvars, mappervars>>

\* lines 266-275: the loop goes on and polls the pending futures
PollFutures ==
    /\ epc = "loop"
    /\ exec_front # {} \/ futures # <<>>
    /\ \E ready \in SUBSET (1..Len(futures)) :
          LET st == PollFrom(1, futures, ready, [ctx |-> context, front |-> exec_front])
          IN /\ context' = st.ctx
             /\ exec_front' = st.front
             /\ futures' = StillPending(1, futures, ready)
    /\ epc' = "pick"
    /\ initial_exec_front' = InitialFrontAfter(initial_exec_front, exec_front')
    /\ UNCHANGED <<deps, priority, yields_future, insns_depending_on,
                   last_insn, executed, results>>
    /\ UNCHANGED <<partvars, compvars, facevars, streamvars, blockvars, mappervars>>

\* lines 278-286: the ready instruction of least priority is executed
ExecInsn ==
    /\ epc = "pick"
    /\ exec_front # {}
    /\ \E insn \in argmin2_front(exec_front) :
          LET front1 == exec_front \ {insn}
              value == Eval(insn, context)
          IN /\ last_insn' = insn
             /\ executed' = executed \cup {insn}
             /\ IF yields_future[insn]
                THEN /\ futures' = Append(futures,
                            [target |-> insn, value |-> value])
                     /\ exec_front' = front1
                     /\ UNCHANGED context
                ELSE LET st == make_available(insn, value,
                                              [ctx |-> context, front |-> front1])
                     IN /\ context' = st.ctx
                        /\ exec_front' = st.front
                        /\ UNCHANGED futures
    /\ epc' = "loop"
    /\ initial_exec_front' = InitialFrontAfter(initial_exec_front, exec_front')
    /\ UNCHANGED <<deps, priority, yields_future, insns_depending_on, results>>
    /\ UNCHANGED <<partvars, compvars, facevars, streamvars, blockvars, mappervars>>

\* lines 287-291: nothing is ready, a pending future is called
ForceFuture ==
    /\ epc = "pick"
    /\ exec_front = {}
    /\ futures # <<>>
    /\ LET k == PopIndex(futures)
           st == make_available(futures[k].target, futures[k].value,
                                [ctx |-> context, front |-> exec_front])
       IN /\ context' = st.ctx
          /\ exec_front' = st.front
          /\ futures' = AfterPop(futures)
    /\ epc' = "loop"
    /\ initial_exec_front' = InitialFrontAfter(initial_exec_front, exec_front')
    /\ UNCHANGED <<deps, priority, yields_future, insns_depending_on,
                   last_insn, executed, results>>
    /\ UNCHANGED <<partvars, compvars, facevars, streamvars, blockvars, mappervars>>

\* lines 287-289: nothing is ready and the poll resolved the last future
NothingLeft ==
    /\ epc = "pick"
    /\ exec_front = {}
    /\ futures = <<>>
    /\ epc' = "loop"
    /\ UNCHANGED <<deps, priority, yields_future, insns_depending_on, initial_exec_front,
                   context, exec_front, futures, last_insn, executed, results>>
    /\ UNCHANGED <<partvars, compvars, facevars, streamvars, blockvars, mappervars>>

\* lines 266, 293-294: the loop ends, the result is evaluated in the context
ExecuteReturn ==
    /\ epc = "loop"
    /\ exec_front = {}
    /\ futures = <<>>
    /\ results' = <<context>>
    /\ epc' = "idle"
    /\ UNCHANGED <<deps, priority, yields_future, insns_depending_on, initial_exec_front,
                   context, exec_front, futures, last_insn, executed>>
    /\ UNCHANGED <<partvars, compvars, facevars, streamvars, blockvars, mappervars>>

\* the scheduler before its first call
ExecuteIdle ==
    /\ context = InitialContext
    /\ exec_front = {}
    /\ futures = <<>>
    /\ last_insn = None
    /\ executed = {}
    /\ epc = "idle"
    /\ results = <<>>

\* no Code: the instruction list is empty
NoCode ==
    /\ deps = <<>>
    /\ priority = <<>>
    /\ yields_future = <<>>
    /\ insns_depending_on = <<>>
    /\ initial_exec_front = {}

\* ----------------------------------------- OperatorCompilerBase.__call__
Kinds == {"whole-domain", "boundary"}

\* the operator templates: n fluxes, each with the operand expressions that
\* hold other fluxes of the template
Templates(n) == [1..n -> SUBSET {-g : g \in 1..n}]

Fluxes == DOMAIN flux_kind
\* the FluxRecord get_contained_fluxes makes for the flux f, and back
RecordOf(f) == Cardinality(Fluxes) + f
flux_expr(fr) == fr - Cardinality(Fluxes)

\* get_contained_fluxes(d).flux_expr for an operand expression d
ContainedFluxes(d) == {-d}

\* line 348: the value fr.dependencies is given before the loop of line 349,
\* collected being the operand expressions get_contained_fluxes stored in it
DependenciesAtLoop(collected) == {}

\* lines 348-351: fr.dependencies after the loop over fr.dependencies
ExpandedDependencies(f) ==
    LET start == DependenciesAtLoop(flux_operands[f])
    IN start \cup UNION {ContainedFluxes(d) : d \in start}

\* lines 346-355: the fluxes are collected and their dependencies expanded
CollectFluxes ==
    /\ cpc \in {"idle", "done"}
    /\ compile_calls < MaxCompileCalls
    /\ compile_calls' = compile_calls + 1
    /\ flux_queue' = [k \in 1..Cardinality(Fluxes) |-> RecordOf(k)]
    /\ fr_dependencies' = [fr \in {RecordOf(f) : f \in Fluxes} |->
                              ExpandedDependencies(flux_expr(fr))]
    /\ flux_batches' = <<>>
    /\ admissible_deps' = {}
    /\ cpc' = "batch"
    /\ UNCHANGED <<flux_operands, flux_kind, optemplate, code, assigned_var_count,
                   expr_to_var, code_result>>
    /\ UNCHANGED <<partvars, execvars, facevars, streamvars, blockvars, mappervars>>

\* lines 359-365: the records of the queue whose dependencies are admissible
PresentBatch == {flux_queue[i] : i \in {j \in 1..Len(flux_queue) :
                    fr_dependencies[flux_queue[j]] \subseteq admissible_deps}}

\* lines 369-372: batches_by_kind[kind]
BatchOfKind(present_batch, kind) ==
    {flux_expr(fr) : fr \in {r \in present_batch : flux_kind[flux_expr(r)] = kind}}

\* lines 356-380: one layer of fluxes is batched, or the order is unresolvable
BatchLayer ==
    /\ cpc = "batch"
    /\ flux_queue # <<>>
    /\ LET present_batch == PresentBatch
           kinds == {flux_kind[flux_expr(fr)] : fr \in present_batch}
       IN IF present_batch # {}
          THEN /\ flux_queue' = SelectSeq(flux_queue, LAMBDA fr : fr \notin present_batch)
               /\ \E kind_order \in Perms(kinds) :
                     flux_batches' = flux_batches \o
                         [k \in 1..Len(kind_order) |->
                             [kind |-> kind_order[k],
                              flux_exprs |-> BatchOfKind(present_batch, kind_order[k])]]
               /\ admissible_deps' = admissible_deps \cup present_batch
               /\ cpc' = "batch"
          ELSE /\ cpc' = "error"
               /\ UNCHANGED <<flux_queue, flux_batches, admissible_deps>>
    /\ UNCHANGED <<flux_operands, flux_kind, fr_dependencies, optemplate, code,
                   assigned_var_count, expr_to_var, code_result, compile_calls>>
    /\ UNCHANGED <<partvars, execvars, facevars, streamvars, blockvars, mappervars>>

\* --------------------------------- OperatorCompilerBase: the expressions
\* pymbolic Variable: the field u is Var(-1), prefix+str(k) is Var(k)
Var(k) == <<"var", k>>

FieldU == Var(-1)

IsVariable(expr) == expr[1] = "var"

\* the expression nodes: <<"sum", a, b>>, <<"cse", child>>, <<"flux", f>> for
\* the flux f of the template, and the operator bindings
\* <<"diff", op_class, xyz_axis, field>>, <<"mass", field>>,
\* <<"recv", index, field>> and <<"op", field>> for any other operator
Children(expr) ==
    CASE expr[1] = "sum" -> <<expr[2], expr[3]>>
      [] expr[1] \in {"cse", "mass", "op"} -> <<expr[2]>>
      [] expr[1] = "diff" -> <<expr[4]>>
      [] expr[1] = "recv" -> <<expr[3]>>
      [] OTHER -> <<>>

RECURSIVE Subterms(_)
Subterms(expr) ==
    {expr} \cup UNION {Subterms(Children(expr)[i]) : i \in DOMAIN Children(expr)}

\* DependencyMapper: the variables of an expression
DependencyMapper(expr) == {s \in Subterms(expr) : IsVariable(s)}

\* the bound operators of one sort in the components of the template, in the
\* order the collector's set lists them, or in the opposite order
BoundOperatorCollector(tag, components, reversed) ==
    LET found == {s \in UNION {Subterms(components[i]) : i \in DOMAIN components} :
                     s[1] = tag}
        listed == CHOOSE p \in Perms(found) : TRUE
    IN  IF reversed
        THEN [i \in DOMAIN listed |-> listed[Len(listed) + 1 - i]]
        ELSE listed

\* the members of a set of numbers as a list, smallest first
RECURSIVE Ascending(_)
Ascending(S) ==
    IF S = {} THEN <<>>
    ELSE LET m == CHOOSE x \in S : \A y \in S : x <= y
         IN  <<m>> \o Ascending(S \ {m})

\* the operand expressions of a flux (field_expr of its interiors, bpair of
\* its boundaries): the field and the fluxes its operands hold
FluxOperandExprs(f) ==
    LET held == Ascending({-d : d \in flux_operands[f]})
    IN  <<FieldU>> \o [k \in DOMAIN held |-> <<"flux", held[k]>>]

\* the expressions an operator may be bound to
BaseExprs(n) == {FieldU, <<"sum", FieldU, FieldU>>} \cup {<<"flux", f>> : f \in 1..n}

UnaryOver(S) ==
    UNION {{<<"cse", c>>, <<"mass", c>>, <<"op", c>>, <<"recv", 0, c>>,
            <<"recv", 1, c>>, <<"diff", "DifferentiationOperator", 0, c>>,
            <<"diff", "DifferentiationOperator", 1, c>>,
            <<"diff", "StiffnessOperator", 0, c>>} : c \in S}

\* the component expressions of a template next to its fluxes
ExtraExprs(n) ==
    BaseExprs(n) \cup UnaryOver(BaseExprs(n)) \cup UnaryOver(UnaryOver(BaseExprs(n)))

\* the operator templates over n fluxes: an object array whose components are
\* the fluxes and further expressions
OpTemplates(n) ==
    LET fluxes == [f \in 1..n |-> <<"flux", f>>]
        extras == IF n >= MaxExtraExprs THEN 0 ELSE MaxExtraExprs - n
    IN  {fluxes \o x : x \in UNION {[1..k -> ExtraExprs(n)] : k \in 0..extras}}
        \ {<<>>}

\* ------------------------------------- OperatorCompilerBase: the walk
\* the compiler's attributes during the walk: code, assigned_var_count,
\* expr_to_var, the flux batches whose fluxes are being mapped (active) and
\* how the walk stands ("ok" or the exception raised)
CompilerState(c, n, e2v) ==
    [code |-> c, assigned_var_count |-> n, expr_to_var |-> e2v, active |-> {},
     status |-> "ok"]

Raise(st, exception) == [st EXCEPT !.status = exception]

\* a lookup of expr_to_var that never finds the key
KnownNever(e2v, key) == FALSE

\* try: self.expr_to_var[key]
Known(e2v, key) == key \in DOMAIN e2v

\* a counter that is not advanced
SameCount(count) == count

\* get_var_name: the counter after a name was taken
NextCount(count) == count + 1

\* the names k calls of get_var_name return, and the counter after them
RECURSIVE get_var_names(_, _)
get_var_names(count, k) ==
    IF k = 0 THEN <<>> ELSE <<count>> \o get_var_names(NextCount(count), k - 1)

RECURSIVE CountAfter(_, _)
CountAfter(count, k) ==
    IF k = 0 THEN count ELSE CountAfter(NextCount(count), k - 1)

\* an instruction put in front of the list
PrependInsn(c, insn) == <<insn>> \o c

\* self.code.append(insn)
AppendInsn(c, insn) == Append(c, insn)

\* the instruction records: the names assigned (get_assignees), the operand
\* expressions and get_dependencies()
Assign(name, expr, prio) ==
    [kind |-> "Assign", names |-> <<name>>, exprs |-> <<expr>>,
     dependencies |-> DependencyMapper(expr), priority |-> prio]

DiffBatchAssign(names, field) ==
    [kind |-> "DiffBatchAssign", names |-> names, exprs |-> <<field>>,
     dependencies |-> DependencyMapper(field), priority |-> 0]

MassAssign(name, field) ==
    [kind |-> "MassAssign", names |-> <<name>>, exprs |-> <<field>>,
     dependencies |-> {field}, priority |-> 0]

FluxReceiveBatchAssign(names, field) ==
    [kind |-> "FluxReceiveBatchAssign", names |-> names, exprs |-> <<field>>,
     dependencies |-> {field}, priority |-> -1]

CUDAFluxBatchAssign(names, operands) ==
    [kind |-> "FluxBatchAssign", names |-> names, exprs |-> operands,
     dependencies |-> UNION {DependencyMapper(operands[i]) : i \in DOMAIN operands},
     priority |-> 0]

\* expr_to_var after expr_to_var[keys[i]] = var(names[i]) for every i
Bound(e2v, keys, names) ==
    [key \in DOMAIN e2v \cup {keys[i] : i \in DOMAIN keys} |->
        IF \E i \in DOMAIN keys : keys[i] = key
        THEN Var(names[CHOOSE i \in DOMAIN keys :
                         /\ keys[i] = key
                         /\ \A j \in DOMAIN keys : keys[j] = key => j <= i])
        ELSE e2v[key]]

\* assign_to_new_var
assign_to_new_var(expr, st, prio) ==
    IF IsVariable(expr) THEN [val |-> expr, st |-> st]
    ELSE [val |-> Var(st.assigned_var_count),
          st |-> [st EXCEPT
                     !.assigned_var_count = NextCount(@),
                     !.code = AppendInsn(@, Assign(st.assigned_var_count, expr, prio))]]

\* the index of the first flux batch that holds the flux f, 0 if none does
BatchIndex(batches, f) ==
    IF \E b \in DOMAIN batches : f \in batches[b].flux_exprs
    THEN CHOOSE b \in DOMAIN batches :
             /\ f \in batches[b].flux_exprs
             /\ \A a \in DOMAIN batches : f \in batches[a].flux_exprs => b <= a
    ELSE 0

RECURSIVE rec(_, _, _)
RECURSIVE rec_all(_, _, _)
RECURSIVE map_common_subexpression(_, _, _)
RECURSIVE map_diff_op_binding(_, _, _)
RECURSIVE map_mass_op_binding(_, _, _)
RECURSIVE map_flux_receive_op_binding(_, _, _)
RECURSIVE map_planned_flux(_, _, _)

\* the expressions of a list mapped one after the other
rec_all(exprs, st, env) ==
    IF exprs = <<>> THEN [vals |-> <<>>, st |-> st]
    ELSE LET head == rec(Head(exprs), st, env)
             tail == rec_all(Tail(exprs), head.st, env)
         IN  [vals |-> <<head.val>> \o tail.vals, st |-> tail.st]

map_common_subexpression(expr, st, env) ==
    IF Known(st.expr_to_var, expr[2])
    THEN [val |-> st.expr_to_var[expr[2]], st |-> st]
    ELSE LET child == rec(expr[2], st, env)
             cse_var == assign_to_new_var(child.val, child.st, 0)
         IN  IF child.st.status # "ok" THEN child
             ELSE [val |-> cse_var.val,
                   st |-> [cse_var.st EXCEPT
                              !.expr_to_var = Bound(@, <<expr[2]>>, <<cse_var.val[2]>>)]]

map_diff_op_binding(expr, st, env) ==
    IF Known(st.expr_to_var, expr)
    THEN [val |-> st.expr_to_var[expr], st |-> st]
    ELSE LET all_diffs == SelectSeq(env.diff_ops,
                              LAMBDA diff : diff[2] = expr[2] /\ diff[4] = expr[4])
             names == get_var_names(st.assigned_var_count, Len(all_diffs))
             named == [st EXCEPT !.assigned_var_count = CountAfter(@, Len(all_diffs))]
             field == rec(expr[4], named, env)
             e2v == Bound(field.st.expr_to_var, all_diffs, names)
         IN  IF all_diffs = <<>> THEN [val |-> expr, st |-> Raise(st, "ValueError")]
             ELSE IF field.st.status # "ok" THEN field
             ELSE IF expr \notin DOMAIN e2v
             THEN [val |-> expr, st |-> Raise(field.st, "KeyError")]
             ELSE [val |-> e2v[expr],
                   st |-> [field.st EXCEPT
                              !.code = AppendInsn(@, DiffBatchAssign(names, field.val)),
                              !.expr_to_var = e2v]]

map_mass_op_binding(expr, st, env) ==
    IF Known(st.expr_to_var, expr)
    THEN [val |-> st.expr_to_var[expr], st |-> st]
    ELSE LET name == st.assigned_var_count
             named == [st EXCEPT !.assigned_var_count = NextCount(@)]
             field == rec(expr[2], named, env)
         IN  IF field.st.status # "ok" THEN field
             ELSE [val |-> Var(name),
                   st |-> [field.st EXCEPT
                              !.code = AppendInsn(@, MassAssign(name, field.val)),
                              !.expr_to_var = Bound(@, <<expr>>, <<name>>)]]

map_flux_receive_op_binding(expr, st, env) ==
    IF Known(st.expr_to_var, expr)
    THEN [val |-> st.expr_to_var[expr], st |-> st]
    ELSE LET all_frs == SelectSeq(env.flux_receive_ops, LAMBDA fr : fr[3] = expr[3])
             names == get_var_names(st.assigned_var_count, Len(all_frs))
             named == [st EXCEPT !.assigned_var_count = CountAfter(@, Len(all_frs))]
             field == rec(expr[3], named, env)
             e2v == Bound(field.st.expr_to_var, all_frs, names)
         IN  IF all_frs = <<>> THEN [val |-> expr, st |-> Raise(st, "AssertionError")]
             ELSE IF field.st.status # "ok" THEN field
             ELSE IF expr \notin DOMAIN e2v
             THEN [val |-> expr, st |-> Raise(field.st, "KeyError")]
             ELSE [val |-> e2v[expr],
                   st |-> [field.st EXCEPT
                              !.code = AppendInsn(@,
                                          FluxReceiveBatchAssign(names, field.val)),
                              !.expr_to_var = e2v]]

\* map_planned_flux with internal_map_flux of the CUDA compiler; a batch
\* that is entered while its fluxes are being mapped is entered without end
map_planned_flux(expr, st, env) ==
    IF Known(st.expr_to_var, expr)
    THEN [val |-> st.expr_to_var[expr], st |-> st]
    ELSE LET b == BatchIndex(env.flux_batches, expr[2])
         IN  IF b = 0
             THEN [val |-> expr, st |-> Raise(st, "flux not in any flux batch")]
             ELSE IF b \in st.active
             THEN [val |-> expr,
                   st |-> Raise(st, "maximum recursion depth exceeded")]
             ELSE
             LET flux_exprs == SelectSeq(env.flux_order,
                                   LAMBDA f : f \in env.flux_batches[b].flux_exprs)
                 RECURSIVE operands(_)
                 operands(k) ==
                     IF k > Len(flux_exprs) THEN <<>>
                     ELSE FluxOperandExprs(flux_exprs[k]) \o operands(k + 1)
                 mapped_fluxes == rec_all(operands(1),
                                      [st EXCEPT !.active = @ \cup {b}], env)
                 count == mapped_fluxes.st.assigned_var_count
                 names == get_var_names(count, Len(flux_exprs))
                 idx == CHOOSE i \in DOMAIN flux_exprs : flux_exprs[i] = expr[2]
             IN  IF mapped_fluxes.st.status # "ok"
                 THEN [val |-> expr, st |-> mapped_fluxes.st]
                 ELSE [val |-> Var(names[idx]),
                       st |-> [mapped_fluxes.st EXCEPT
                                  !.assigned_var_count = CountAfter(@, Len(flux_exprs)),
                                  !.code = AppendInsn(@,
                                      CUDAFluxBatchAssign(names, mapped_fluxes.vals)),
                                  !.expr_to_var = Bound(@,
                                      [i \in DOMAIN flux_exprs |-> <<"flux", flux_exprs[i]>>],
                                      names),
                                  !.active = st.active]]

\* IdentityMapper.rec with the methods the compiler overrides
rec(expr, st, env) ==
    IF st.status # "ok" THEN [val |-> expr, st |-> st]
    ELSE CASE expr[1] = "var" -> [val |-> expr, st |-> st]
           [] expr[1] = "sum" ->
                LET children == rec_all(<<expr[2], expr[3]>>, st, env)
                IN  [val |-> <<"sum", children.vals[1], children.vals[2]>>,
                     st |-> children.st]
           [] expr[1] = "op" ->
                LET field == rec(expr[2], st, env)
                IN  [val |-> <<"op", field.val>>, st |-> field.st]
           [] expr[1] = "cse" -> map_common_subexpression(expr, st, env)
           [] expr[1] = "diff" -> map_diff_op_binding(expr, st, env)
           [] expr[1] = "mass" -> map_mass_op_binding(expr, st, env)
           [] expr[1] = "recv" -> map_flux_receive_op_binding(expr, st, env)
           [] expr[1] = "flux" -> map_planned_flux(expr, st, env)

\* line 399: assign_to_new_var on every component of the result
RECURSIVE assign_all(_, _)
assign_all(exprs, st) ==
    IF exprs = <<>> THEN [vals |-> <<>>, st |-> st]
    ELSE LET head == assign_to_new_var(Head(exprs), st, 0)
             tail == assign_all(Tail(exprs), head.st)
         IN  [vals |-> <<head.val>> \o tail.vals, st |-> tail.st]

\* lines 389-399: the walk of the template and the top-level assignments
Walk(components, st, env) ==
    LET mapped == rec_all(components, st, env)
    IN  IF mapped.st.status # "ok" THEN mapped ELSE assign_all(mapped.vals, mapped.st)

\* Code.__init__, line 219: every dependency of every instruction is a Variable
DependenciesAreVariables(c) ==
    \A i \in DOMAIN c : \A dep \in c[i].dependencies : IsVariable(dep)

\* Code.__init__, lines 223-231: insn_generated_vars and initial_exec_front
\* of a list of instruction records
GeneratedVars(c) == UNION {{Var(c[i].names[k]) : k \in DOMAIN c[i].names} : i \in DOMAIN c}

CodeInitialExecFront(c) ==
    {i \in DOMAIN c : c[i].dependencies \cap GeneratedVars(c) = {}}

\* lines 356, 389-400: every flux is batched; the template is walked and the
\* Code is built and returned, unless an exception ends the call
CompileReturn ==
    /\ cpc = "batch"
    /\ flux_queue = <<>>
    /\ \E flux_order \in Perms(Fluxes), reversed \in BOOLEAN :
          LET env == [flux_batches |-> flux_batches,
                      flux_order |-> flux_order,
                      diff_ops |-> BoundOperatorCollector("diff", optemplate, reversed),
                      flux_receive_ops |->
                          BoundOperatorCollector("recv", optemplate, reversed)]
              walked == Walk(optemplate,
                             CompilerState(code, assigned_var_count, expr_to_var), env)
          IN  /\ code' = walked.st.code
              /\ assigned_var_count' = walked.st.assigned_var_count
              /\ expr_to_var' = walked.st.expr_to_var
              /\ IF walked.st.status = "maximum recursion depth exceeded"
                 THEN cpc' = "overflow" /\ code_result' = <<>>
                 ELSE IF walked.st.status # "ok"
                 THEN cpc' = "raised" /\ code_result' = <<>>
                 ELSE IF ~DependenciesAreVariables(walked.st.code)
                 THEN cpc' = "assert" /\ code_result' = <<>>
                 ELSE cpc' = "done" /\ code_result' = walked.vals
    /\ UNCHANGED <<flux_operands, flux_kind, flux_queue, fr_dependencies,
                   flux_batches, admissible_deps, optemplate, compile_calls>>
    /\ UNCHANGED <<partvars, execvars, facevars, streamvars, blockvars, mappervars>>

\* a compiler instance before it is called
CompileIdle ==
    /\ flux_queue = <<>>
    /\ fr_dependencies = <<>>
    /\ flux_batches = <<>>
    /\ admissible_deps = {}
    /\ cpc = "idle"
    /\ code = <<>>
    /\ assigned_var_count = 0
    /\ expr_to_var = <<>>
    /\ code_result = <<>>
    /\ compile_calls = 0

\* no operator template
NoTemplate ==
    /\ flux_operands = <<>>
    /\ flux_kind = <<>>
    /\ optemplate = <<>>


\* ------------------------------------------------------- GPUFaceStorage
\* the element faces (el, face_number) of the mesh
ElFaces == 1..MaxFaces

\* GPUFaceStorage.__init__ and the constructors of the two subclasses
NewInteriorStorage(el_face) ==
    [kind |-> "interior", opposite |-> None, el_face |-> el_face,
     gpu_bdry_index_in_floats |-> None]

NewBoundaryStorage(gpu_bdry_index_in_floats) ==
    [kind |-> "boundary", opposite |-> None, el_face |-> None,
     gpu_bdry_index_in_floats |-> gpu_bdry_index_in_floats]

NewLooseStorage ==
    [kind |-> "loose", opposite |-> None, el_face |-> None,
     gpu_bdry_index_in_floats |-> None]

\* set_opposite storing whatever it is given
set_opposite_always(cur, opp) == [opposite |-> opp, failed |-> FALSE]

\* lines 86-90: GPUFaceStorage.set_opposite on an object whose opposite is
\* cur: the opposite it has afterwards, and whether the assertion failed
set_opposite(cur, opp) ==
    IF cur = None
    THEN [opposite |-> opp, failed |-> FALSE]
    ELSE [opposite |-> cur, failed |-> cur # opp]

\* ------------------------------------------------ _build_face_storage_info
\* lines 538-556: make_int_face on the state st = [storages, fsm, ok]; the
\* assertion of line 554 fails for an element face that is in fsm already
make_int_face(el_face, st) ==
    IF ~st.ok \/ el_face \in DOMAIN st.fsm
    THEN [st EXCEPT !.ok = FALSE]
    ELSE [storages |-> Append(st.storages, NewInteriorStorage(el_face)),
          fsm |-> [e \in DOMAIN st.fsm \cup {el_face} |->
                      IF e = el_face THEN Len(st.storages) + 1 ELSE st.fsm[e]],
          ok |-> TRUE]

\* only the first of the two assignments of lines 580-581
PairedOneWay(stor, face1, face2) == [stor EXCEPT ![face1].opposite = face2]

\* lines 580-581 and 675-676: face1.opposite = face2; face2.opposite = face1
Paired(stor, face1, face2) ==
    [stor EXCEPT ![face1].opposite = face2, ![face2].opposite = face1]

\* line 674 without the increment
SameBoundaryFloats(cur) == cur

\* line 674: aligned_boundary_floats[0] += aligned_fnc
NextBoundaryFloats(cur) == cur + aligned_fnc

\* lines 532-575: the builder starts with an empty map
BuildStart ==
    /\ fpc = "idle"
    /\ fsm' = <<>>
    /\ fpc' = "interior"
    /\ UNCHANGED <<aligned_fnc, storages, aligned_boundary_floats, int_pairs_done,
                   bdry_pairs_done, bdry_groups_done, face_info, last_set>>
    /\ UNCHANGED <<partvars, execvars, compvars, streamvars, blockvars, mappervars>>

\* lines 577-639: the next interior face pair fp, with the element faces
\* int_side and ext_side
InteriorPair ==
    /\ fpc = "interior"
    /\ int_pairs_done < MaxFacePairs
    /\ \E int_side, ext_side \in ElFaces :
          LET st1 == make_int_face(int_side, [storages |-> storages, fsm |-> fsm, ok |-> TRUE])
              st2 == make_int_face(ext_side, st1)
              face1 == Len(st1.storages)
              face2 == Len(st2.storages)
          IN /\ fsm' = st2.fsm
             /\ IF st2.ok
                THEN /\ storages' = Paired(st2.storages, face1, face2)
                     /\ int_pairs_done' = int_pairs_done + 1
                     /\ fpc' = "interior"
                ELSE /\ storages' = st2.storages
                     /\ fpc' = "error"
                     /\ UNCHANGED int_pairs_done
    /\ UNCHANGED <<aligned_fnc, aligned_boundary_floats, bdry_pairs_done,
                   bdry_groups_done, face_info, last_set>>
    /\ UNCHANGED <<partvars, execvars, compvars, streamvars, blockvars, mappervars>>

\* lines 577, 641-656: the interior face pairs are done
InteriorDone ==
    /\ fpc = "interior"
    /\ aligned_boundary_floats' = 0
    /\ fpc' = "boundary"
    /\ UNCHANGED <<aligned_fnc, storages, fsm, int_pairs_done, bdry_pairs_done,
                   bdry_groups_done, face_info, last_set>>
    /\ UNCHANGED <<partvars, execvars, compvars, streamvars, blockvars, mappervars>>

\* lines 663-687: the next boundary face pair of the current face group
BoundaryPair ==
    /\ fpc = "boundary"
    /\ bdry_groups_done < MaxBdryGroups
    /\ bdry_pairs_done < MaxBdryFaces
    /\ \E int_side \in ElFaces :
          LET st1 == make_int_face(int_side, [storages |-> storages, fsm |-> fsm, ok |-> TRUE])
              face1 == Len(st1.storages)
              face2 == face1 + 1
          IN /\ fsm' = st1.fsm
             /\ IF st1.ok
                THEN /\ storages' = Paired(Append(st1.storages,
                                        NewBoundaryStorage(aligned_boundary_floats)),
                                      face1, face2)
                     /\ aligned_boundary_floats' = NextBoundaryFloats(aligned_boundary_floats)
                     /\ bdry_pairs_done' = bdry_pairs_done + 1
                     /\ fpc' = "boundary"
                ELSE /\ storages' = st1.storages
                     /\ fpc' = "error"
                     /\ UNCHANGED <<aligned_boundary_floats, bdry_pairs_done>>
    /\ UNCHANGED <<aligned_fnc, int_pairs_done, bdry_groups_done, face_info, last_set>>
    /\ UNCHANGED <<partvars, execvars, compvars, streamvars, blockvars, mappervars>>

\* lines 656-663: the face pairs of a boundary face group are done (none at
\* all for a group without ldis_loc)
NextBdryGroup ==
    /\ fpc = "boundary"
    /\ bdry_groups_done < MaxBdryGroups
    /\ bdry_groups_done' = bdry_groups_done + 1
    /\ UNCHANGED <<aligned_fnc, storages, fsm, aligned_boundary_floats, int_pairs_done,
                   bdry_pairs_done, face_info, last_set, fpc>>
    /\ UNCHANGED <<partvars, execvars, compvars, streamvars, blockvars, mappervars>>

\* lines 656, 689-694: the FaceStorageInfo is returned
BuildReturn ==
    /\ fpc = "boundary"
    /\ face_info' = <<[map |-> fsm,
                       aligned_boundary_dofs_per_face |-> aligned_fnc,
                       aligned_boundary_dof_count |-> aligned_boundary_floats]>>
    /\ fpc' = "done"
    /\ UNCHANGED <<aligned_fnc, storages, fsm, aligned_boundary_floats, int_pairs_done,
                   bdry_pairs_done, bdry_groups_done, last_set>>
    /\ UNCHANGED <<partvars, execvars, compvars, streamvars, blockvars, mappervars>>

\* lines 83-84: a GPUFaceStorage made outside the builder
NewFaceStorage ==
    /\ fpc = "done"
    /\ Cardinality({k \in 1..Len(storages) : storages[k].kind = "loose"}) < MaxLooseStorages
    /\ storages' = Append(storages, NewLooseStorage)
    /\ UNCHANGED <<aligned_fnc, fsm, aligned_boundary_floats, int_pairs_done,
                   bdry_pairs_done, bdry_groups_done, face_info, last_set, fpc>>
    /\ UNCHANGED <<partvars, execvars, compvars, streamvars, blockvars, mappervars>>

\* lines 86-90: self.set_opposite(opp) for two of the objects
SetOpposite ==
    /\ fpc = "done"
    /\ \E self, opp \in 1..Len(storages) :
          LET r == set_opposite(storages[self].opposite, opp)
          IN /\ storages' = [storages EXCEPT ![self].opposite = r.opposite]
             /\ last_set' = <<self, opp>>
             /\ fpc' = IF r.failed THEN "error" ELSE "done"
    /\ UNCHANGED <<aligned_fnc, fsm, aligned_boundary_floats, int_pairs_done,
                   bdry_pairs_done, bdry_groups_done, face_info>>
    /\ UNCHANGED <<partvars, execvars, compvars, streamvars, blockvars, mappervars>>

\* the builder before it is called
FaceIdle ==
    /\ storages = <<>>
    /\ fsm = <<>>
    /\ aligned_boundary_floats = 0
    /\ int_pairs_done = 0
    /\ bdry_pairs_done = 0
    /\ bdry_groups_done = 0
    /\ face_info = <<>>
    /\ last_set = <<>>
    /\ fpc = "idle"

\* no discretization: no faces to store
NoFaces == aligned_fnc = 1

\* ------------------------------------------------ Discretization: streams
FutureKinds == {"_BoundaryToGPUFuture", "_BoundarizeGPUToNumpyFuture"}

\* lines 763-767: _get_stream on the pool; the stream and the pool left
get_stream(pool) ==
    IF pool = <<>>
    THEN [stream |-> Cardinality(DOMAIN stream_busy) + 1, pool |-> pool]
    ELSE [stream |-> pool[Len(pool)], pool |-> SubSeq(pool, 1, Len(pool) - 1)]

\* lines 769-770: _release_stream
release_stream(pool, s) == Append(pool, s)

\* the stream handed back without waiting for it
NotSynchronized(busy, s) == busy

\* lines 1047, 1267: stream.synchronize() returns when the work enqueued on
\* the stream has completed
synchronize(busy, s) == [busy EXCEPT ![s] = FALSE]

\* lines 1008-1036, 1257-1261: a future takes a stream and enqueues its work
MakeFuture(kind) ==
    /\ Len(stream_futures) < MaxStreamFutures
    /\ LET got == get_stream(stream_pool)
       IN /\ stream_pool' = got.pool
          /\ stream_busy' = [s \in DOMAIN stream_busy \cup {got.stream} |->
                                IF s = got.stream THEN TRUE ELSE stream_busy[s]]
          /\ stream_futures' = Append(stream_futures,
                                  [kind |-> kind, stream |-> got.stream, resolved |-> FALSE])
    /\ UNCHANGED <<partvars, execvars, compvars, facevars, blockvars, mappervars>>

\* lines 982-1041: _BoundaryToGPUFuture.__init__
MakeBoundaryToGPUFuture == MakeFuture("_BoundaryToGPUFuture")

\* lines 1238-1261: _BoundarizeGPUToNumpyFuture.__init__
MakeBoundarizeGPUToNumpyFuture == MakeFuture("_BoundarizeGPUToNumpyFuture")

\* the device completes the work enqueued on a stream
StreamCompletes ==
    /\ \E s \in DOMAIN stream_busy :
          /\ stream_busy[s]
          /\ stream_busy' = [stream_busy EXCEPT ![s] = FALSE]
    /\ UNCHANGED <<stream_pool, stream_futures>>
    /\ UNCHANGED <<partvars, execvars, compvars, facevars, blockvars, mappervars>>

\* lines 1046-1049, 1266-1269: __call__ of a future, which its holder calls
\* once (Code.execute takes the future off its list for the call)
ResolveFuture ==
    /\ \E f \in 1..Len(stream_futures) :
          /\ ~stream_futures[f].resolved
          /\ stream_busy' = synchronize(stream_busy, stream_futures[f].stream)
          /\ stream_pool' = release_stream(stream_pool, stream_futures[f].stream)
          /\ stream_futures' = [stream_futures EXCEPT ![f].resolved = TRUE]
    /\ UNCHANGED <<partvars, execvars, compvars, facevars, blockvars, mappervars>>

\* line 473: the pool of a new discretization
StreamIdle ==
    /\ stream_pool = <<>>
    /\ stream_busy = <<>>
    /\ stream_futures = <<>>

\* ------------------------------------------- Discretization._build_blocks
\* the element ids of a partition, which is a list indexed by element id
ElIds(part) == 0..(Len(part) - 1)

\* the partitions make_gpu_partition_greedy returns for n elements: the block
\* numbers are 0..k-1 and every block holds an element
GpuPartitions(n) ==
    UNION {{part \in [1..n -> 0..(k - 1)] :
               \A b \in 0..(k - 1) : \E i \in 1..n : part[i] = b} : k \in 1..n}

\* the element ids a block number holds, in the order of enumerate(self.partition)
RECURSIVE BlockElNumbers(_, _, _)
BlockElNumbers(part, block, el_id) ==
    IF el_id >= Len(part) THEN <<>>
    ELSE (IF part[el_id + 1] = block THEN <<el_id>> ELSE <<>>)
             \o BlockElNumbers(part, block, el_id + 1)

\* the microblock is closed one element late
MicroblockFullLate(current_microblock, size) == Len(current_microblock) = size + 1

\* the test that closes the current microblock
MicroblockFull(current_microblock, size) == Len(current_microblock) = size

\* the loop of make_block over enumerate(elements), from the element at
\* block_el_nr on; loc holds microblocks, current_microblock, el_number_map
RECURSIVE MicroblockLoop(_, _, _, _)
MicroblockLoop(elements, block_el_nr, size, loc) ==
    IF block_el_nr >= Len(elements) THEN loc
    ELSE LET el == elements[block_el_nr + 1]
             number_map == (el :> block_el_nr) @@ loc.el_number_map
             current == Append(loc.current_microblock, el)
         IN  IF MicroblockFull(current, size)
             THEN MicroblockLoop(elements, block_el_nr + 1, size,
                      [microblocks |-> Append(loc.microblocks, current),
                       current_microblock |-> <<>>,
                       el_number_map |-> number_map])
             ELSE MicroblockLoop(elements, block_el_nr + 1, size,
                      [microblocks |-> loc.microblocks,
                       current_microblock |-> current,
                       el_number_map |-> number_map])

\* make_block up to its assertion: the microblocks and the el_number_map
make_block(block_num, el_numbers, size) ==
    LET elements == IF block_num \in DOMAIN el_numbers
                    THEN el_numbers[block_num] ELSE <<>>
        loc == MicroblockLoop(elements, 0, size,
                   [microblocks |-> <<>>, current_microblock |-> <<>>,
                    el_number_map |-> <<>>])
    IN  [number |-> block_num,
         microblocks |-> IF loc.current_microblock # <<>>
                         THEN Append(loc.microblocks, loc.current_microblock)
                         ELSE loc.microblocks,
         el_number_map |-> loc.el_number_map]

\* the divmod of find_el_gpu_index: the microblock of an element and its
\* place in it
el_mb_index(block, el) ==
    <<block.el_number_map[el] \div mb_elements,
      block.el_number_map[el] % mb_elements>>

\* _build_blocks is entered: block_el_numbers and block_count
BuildBlocks ==
    /\ bpc = "idle"
    /\ gpu_blocks = <<>>
    /\ block_el_numbers' =
           [block \in {el_partition[i] : i \in DOMAIN el_partition} |->
               BlockElNumbers(el_partition, block, 0)]
    /\ bpc' = "make"
    /\ UNCHANGED <<el_partition, mb_elements, microblocks_per_block, gpu_blocks>>
    /\ UNCHANGED <<partvars, execvars, compvars, facevars, streamvars, mappervars>>

\* one make_block(block_num) of the list comprehension
MakeBlock ==
    /\ bpc = "make"
    /\ Len(gpu_blocks) < Cardinality(DOMAIN block_el_numbers)
    /\ LET block == make_block(Len(gpu_blocks), block_el_numbers, mb_elements)
       IN  IF Len(block.microblocks) <= microblocks_per_block
           THEN /\ gpu_blocks' = Append(gpu_blocks, block)
                /\ bpc' = bpc
           ELSE /\ gpu_blocks' = gpu_blocks
                /\ bpc' = "error"
    /\ UNCHANGED <<el_partition, mb_elements, microblocks_per_block, block_el_numbers>>
    /\ UNCHANGED <<partvars, execvars, compvars, facevars, streamvars, mappervars>>

\* the list of blocks is returned
BuildBlocksReturn ==
    /\ bpc = "make"
    /\ Len(gpu_blocks) = Cardinality(DOMAIN block_el_numbers)
    /\ bpc' = "done"
    /\ UNCHANGED <<el_partition, mb_elements, microblocks_per_block, block_el_numbers,
                   gpu_blocks>>
    /\ UNCHANGED <<partvars, execvars, compvars, facevars, streamvars, mappervars>>

\* _build_blocks before it is called
BlocksIdle ==
    /\ el_partition = <<>>
    /\ mb_elements = 1
    /\ microblocks_per_block = 1
    /\ block_el_numbers = <<>>
    /\ gpu_blocks = <<>>
    /\ bpc = "idle"

\* ---------------------------------- one instruction through Code.execute
\* the modules that define an ExecutionMapper
MapperModules == {"hedge.backends.cuda.execute", "src.python.backends.cuda.execute"}

\* the instruction classes of the compiler and of the CUDA backend
SingleKinds == {"Assign", "VectorExprAssign", "MassAssign"}

BatchKinds == {"DiffBatchAssign", "FluxBatchAssign", "FluxReceiveBatchAssign"}

\* get_executor_method: the attribute of the mapper an instruction asks for
ExecutorMethod(kind) ==
    CASE kind = "Assign" -> "exec_assign"
      [] kind = "VectorExprAssign" -> "exec_vector_expr_assign"
      [] kind = "MassAssign" -> "exec_mass_assign"
      [] kind = "DiffBatchAssign" -> "exec_diff_batch_assign"
      [] kind = "FluxBatchAssign" -> "exec_flux_batch_assign"
      [] kind = "FluxReceiveBatchAssign" -> "exec_flux_receive_batch_assign"

\* the exec_* methods an ExecutionMapper class defines
ExecMethods(module) ==
    IF module = "hedge.backends.cuda.execute"
    THEN {"exec_assign", "exec_vector_expr_assign", "exec_diff_batch_assign",
          "exec_flux_batch_assign", "exec_mass_assign"}
    ELSE {"exec_assign", "exec_vector_expr_assign", "exec_diff_batch_assign",
          "exec_flux_batch_assign"}

\* the distinct-name lists of a batch instruction
NameLists ==
    {ns \in UNION {[1..k -> 1..MaxBatchNames] : k \in 1..MaxBatchNames} :
        \A i, j \in DOMAIN ns : i # j => ns[i] # ns[j]}

\* the instructions: [kind, names]; names is get_assignees() in order
Instructions ==
    {[kind |-> k, names |-> ns] : k \in BatchKinds, ns \in NameLists}
    \cup {[kind |-> k, names |-> <<n>>] : k \in SingleKinds, n \in 1..MaxBatchNames}

\* the value the kernels compute for a name
ValueOf(name) == name + MaxBatchNames + 1

\* the list of (name, value) tuples an exec_* method of hedge.backends.cuda
\* builds
NameValuePairs(names) == [i \in DOMAIN names |-> <<names[i], ValueOf(names[i])>>]

\* what an exec_* method of hedge.backends.cuda returns: the 2-tuple of the
\* list of pairs and an empty list
HedgeReturn(insn) == <<NameValuePairs(insn.names), <<>>>>

\* the context entry of a name and its value
Binding(name) == [key |-> <<name>>, value |-> <<ValueOf(name)>>]

\* line 282: the executor method is looked up and called
ExecMethod ==
    /\ mpc = "idle"
    /\ m_insn.kind # "none"
    /\ IF ExecutorMethod(m_insn.kind) \notin ExecMethods(mapper)
       THEN /\ mpc' = "error"
            /\ m_error' = "AttributeError"
            /\ UNCHANGED <<m_iterable, m_returned, m_context>>
       ELSE IF mapper = "hedge.backends.cuda.execute"
       THEN /\ m_iterable' = TRUE
            /\ m_returned' = HedgeReturn(m_insn)
            /\ mpc' = "iterate"
            /\ UNCHANGED <<m_context, m_error>>
       ELSE \* the method stores into self.context itself and returns None
            /\ m_context' = {Binding(m_insn.names[i]) : i \in DOMAIN m_insn.names}
            /\ m_iterable' = FALSE
            /\ m_returned' = <<>>
            /\ mpc' = "iterate"
            /\ UNCHANGED m_error
    /\ UNCHANGED <<mapper, m_insn, m_pos>>
    /\ UNCHANGED <<partvars, execvars, compvars, facevars, streamvars, blockvars>>

\* lines 282-286: the for statement takes the next item of what the method
\* returned, unpacks it into target and value and makes it available
NextItem ==
    /\ mpc = "iterate"
    /\ IF ~m_iterable
       THEN /\ mpc' = "error"
            /\ m_error' = "TypeError"
            /\ UNCHANGED <<m_pos, m_context>>
       ELSE IF m_pos = Len(m_returned)
       THEN /\ mpc' = "done"
            /\ UNCHANGED <<m_pos, m_context, m_error>>
       ELSE LET item == m_returned[m_pos + 1]
            IN  IF Len(item) # 2
                THEN /\ mpc' = "error"
                     /\ m_error' = "ValueError"
                     /\ UNCHANGED <<m_pos, m_context>>
                ELSE \* exec_mapper.context[target] = value; the target is a
                     \* tuple that holds a device array, which the dict can
                     \* hash or not
                     \E hashable \in BOOLEAN :
                        IF hashable
                        THEN /\ m_context' = {b \in m_context : b.key # item[1]}
                                             \cup {[key |-> item[1], value |-> item[2]]}
                             /\ m_pos' = m_pos + 1
                             /\ UNCHANGED <<mpc, m_error>>
                        ELSE /\ mpc' = "error"
                             /\ m_error' = "TypeError"
                             /\ UNCHANGED <<m_pos, m_context>>
    /\ UNCHANGED <<mapper, m_insn, m_iterable, m_returned>>
    /\ UNCHANGED <<partvars, execvars, compvars, facevars, streamvars, blockvars>>

\* no instruction is being run
MapperIdle ==
    /\ mapper = "none"
    /\ m_insn = [kind |-> "none", names |-> <<>>]
    /\ m_iterable = FALSE
    /\ m_returned = <<>>
    /\ m_pos = 0
    /\ m_context = {}
    /\ mpc = "idle"
    /\ m_error = ""

\* the partitioner before its first call
PartitionIdle ==
    /\ avail_nodes = {}
    /\ next_node = None
    /\ partition = <<>>
    /\ blocks = <<>>
    /\ queue = <<>>
    /\ result = {}
    /\ ppc = "idle"
    /\ returned = <<>>

PartitionInit ==
    /\ BlocksIdle
    /\ MapperIdle
    /\ adjgraph \in Graphs
    /\ max_block_size \in 1..MaxBlockSize
    /\ order \in Perms(DOMAIN adjgraph)
    /\ PartitionIdle
    /\ NoCode
    /\ ExecuteIdle
    /\ NoTemplate
    /\ CompileIdle
    /\ NoFaces
    /\ FaceIdle
    /\ StreamIdle

PartitionNext == Call \/ StartBlock \/ BfsStep \/ PartitionReturn

PartitionSpec == PartitionInit /\ [][PartitionNext]_vars

\* the partitioner is one thread of control: it always takes its next step
PartitionFairSpec == PartitionSpec /\ WF_vars(PartitionNext)

\* no mesh: the partitioner's arguments are empty
NoMesh ==
    /\ adjgraph = <<>>
    /\ max_block_size = 1
    /\ order = <<>>

ExecuteInit ==
    /\ BlocksIdle
    /\ MapperIdle
    /\ deps \in DependencySets
    /\ priority \in [Insns -> Priorities]
    /\ yields_future \in [Insns -> BOOLEAN]
    /\ insns_depending_on = InsnsDependingOn(deps)
    /\ initial_exec_front = InitialExecFront(deps)
    /\ ExecuteIdle
    /\ NoMesh
    /\ PartitionIdle
    /\ NoTemplate
    /\ CompileIdle
    /\ NoFaces
    /\ FaceIdle
    /\ StreamIdle

ExecuteNext ==
    Execute \/ PollFutures \/ ExecInsn \/ ForceFuture \/ NothingLeft \/ ExecuteReturn

ExecuteSpec == ExecuteInit /\ [][ExecuteNext]_vars

\* the scheduler is one thread of control: it always takes its next step
ExecuteFairSpec == ExecuteSpec /\ WF_vars(ExecuteNext)

CompileInit ==
    /\ BlocksIdle
    /\ MapperIdle
    /\ \E n \in 0..MaxFluxes :
          /\ flux_operands \in {t \in Templates(n) : \A f \in 1..n : -f \notin t[f]}
          /\ flux_kind \in [1..n -> Kinds]
          /\ optemplate \in OpTemplates(n)
    /\ CompileIdle
    /\ NoMesh
    /\ PartitionIdle
    /\ NoCode
    /\ ExecuteIdle
    /\ NoFaces
    /\ FaceIdle
    /\ StreamIdle

CompileNext == CollectFluxes \/ BatchLayer \/ CompileReturn

CompileSpec == CompileInit /\ [][CompileNext]_vars

FaceInit ==
    /\ BlocksIdle
    /\ MapperIdle
    /\ aligned_fnc \in 1..MaxAlignedFnc
    /\ FaceIdle
    /\ StreamIdle
    /\ NoMesh
    /\ PartitionIdle
    /\ NoCode
    /\ ExecuteIdle
    /\ NoTemplate
    /\ CompileIdle

FaceNext ==
    \/ BuildStart \/ InteriorPair \/ InteriorDone \/ BoundaryPair \/ NextBdryGroup
    \/ BuildReturn \/ NewFaceStorage \/ SetOpposite

FaceSpec == FaceInit /\ [][FaceNext]_vars

StreamInit ==
    /\ BlocksIdle
    /\ MapperIdle
    /\ StreamIdle
    /\ NoFaces
    /\ FaceIdle
    /\ NoMesh
    /\ PartitionIdle
    /\ NoCode
    /\ ExecuteIdle
    /\ NoTemplate
    /\ CompileIdle

StreamNext ==
    \/ MakeBoundaryToGPUFuture \/ MakeBoundarizeGPUToNumpyFuture
    \/ StreamCompletes \/ ResolveFuture

StreamSpec == StreamInit /\ [][StreamNext]_vars

BlocksInit ==
    /\ \E n \in 1..MaxBlockEls : el_partition \in GpuPartitions(n)
    /\ mb_elements \in 1..MaxMicroblockEls
    /\ microblocks_per_block \in 1..MaxMicroblocksPerBlock
    /\ block_el_numbers = <<>>
    /\ gpu_blocks = <<>>
    /\ bpc = "idle"
    /\ MapperIdle
    /\ StreamIdle
    /\ NoFaces
    /\ FaceIdle
    /\ NoMesh
    /\ PartitionIdle
    /\ NoCode
    /\ ExecuteIdle
    /\ NoTemplate
    /\ CompileIdle

BlocksNext == BuildBlocks \/ MakeBlock \/ BuildBlocksReturn

BlocksSpec == BlocksInit /\ [][BlocksNext]_vars

MapperInit ==
    /\ mapper \in MapperModules
    /\ m_insn \in Instructions
    /\ m_iterable = FALSE
    /\ m_returned = <<>>
    /\ m_pos = 0
    /\ m_context = {}
    /\ mpc = "idle"
    /\ m_error = ""
    /\ BlocksIdle
    /\ StreamIdle
    /\ NoFaces
    /\ FaceIdle
    /\ NoMesh
    /\ PartitionIdle
    /\ NoCode
    /\ ExecuteIdle
    /\ NoTemplate
    /\ CompileIdle

MapperNext == ExecMethod \/ NextItem

MapperSpec == MapperInit /\ [][MapperNext]_vars

\* ------------------------------------------------------------------ claims
\* the blocks a call of make_gpu_partition_greedy returned
ReturnedBlocks(k) == returned[k][2]
ReturnedPartition(k) == returned[k][1]

\* C1: in what make_gpu_partition_greedy returns, every element is in exactly
\* one block and no block has more than max_block_size elements
C1_ExactCoverBoundedBlocks ==
    \A k \in 1..Len(returned) :
        /\ \A el \in DOMAIN adjgraph :
              Cardinality({i \in 1..Len(ReturnedBlocks(k)) : el \in ReturnedBlocks(k)[i]}) = 1
        /\ \A i \in 1..Len(ReturnedBlocks(k)) :
              Cardinality(ReturnedBlocks(k)[i]) <= max_block_size

\* a call returned several blocks, the last of them not full, for a graph with
\* an edge between two blocks
C1_Witness ==
    /\ returned # <<>>
    /\ Len(ReturnedBlocks(1)) >= 2
    /\ \E i \in 1..Len(ReturnedBlocks(1)) : Cardinality(ReturnedBlocks(1)[i]) < max_block_size
    /\ \E a \in DOMAIN adjgraph : \E b \in adjgraph[a] :
          ReturnedPartition(1)[a] # ReturnedPartition(1)[b]

\* the instruction that assigns a name
Assigner(name) == CHOOSE insn \in Insns : name \in get_assignees(insn)

\* the step of lines 278-286 that picks and executes insn
ExecutesNow(insn) ==
    /\ epc = "pick"
    /\ exec_front # {}
    /\ epc' = "loop"
    /\ last_insn' = insn

\* every name that no instruction assigns is bound by the caller
FieldsBound == \A insn \in Insns : \A dep \in deps[insn] \ insn_generated_vars :
                   InitialContext[dep] # Unbound

\* C2: when an instruction is executed, each of its dependencies is bound in
\* the context; for a dependency an instruction assigns, that instruction has
\* been executed and the future it returned is no longer pending
C2_DependenciesBoundFirst ==
    [][\A insn \in Insns :
          (FieldsBound /\ ExecutesNow(insn)) =>
              \A dep \in deps[insn] :
                  /\ context[dep] # Unbound
                  /\ dep \in insn_generated_vars =>
                        /\ Assigner(dep) \in executed
                        /\ \A k \in 1..Len(futures) : futures[k].target # dep]_vars

\* an instruction was executed that reads a name whose instruction returned a
\* future
C2_Witness ==
    \E insn \in executed : \E dep \in deps[insn] :
        dep \in insn_generated_vars /\ yields_future[Assigner(dep)]

\* the instructions that insn transitively depends on
RECURSIVE DependsOnWithin(_, _)
DependsOnWithin(S, n) ==
    IF n = 0 THEN S
    ELSE DependsOnWithin(S \cup UNION {deps[i] \cap insn_generated_vars : i \in S}, n - 1)

TransitiveDeps(insn) == DependsOnWithin(deps[insn] \cap insn_generated_vars, MaxInsns)

Acyclic == \A insn \in Insns : insn \notin TransitiveDeps(insn)

\* C3: for an acyclic Code whose field names are bound, when the loop of
\* execute has ended every instruction has been executed and every assigned
\* name is bound
C3_AllExecutedAtExit ==
    (epc = "idle" /\ results # <<>> /\ Acyclic /\ FieldsBound) =>
        /\ executed = Insns
        /\ \A name \in insn_generated_vars : context[name] # Unbound
        /\ \A name \in insn_generated_vars : results[Len(results)][name] # Unbound

\* a call has ended for an acyclic Code with a dependency on a name whose
\* instruction returned a future
C3_Witness ==
    /\ epc = "idle"
    /\ results # <<>>
    /\ Acyclic
    /\ \E insn \in Insns : \E dep \in deps[insn] :
          dep \in insn_generated_vars /\ yields_future[Assigner(dep)]

\* C4: every call of execute ends, whatever the futures answer to is_ready()
C4_ExecuteTerminates == (epc = "loop") ~> (epc = "idle")

\* nothing is ready while futures are pending: the executor must block on one
C4_Witness ==
    /\ epc = "pick"
    /\ exec_front = {}
    /\ futures # <<>>
    /\ executed # Insns

\* the value of a name, computed along the dependencies alone
RECURSIVE Expected(_)
RECURSIVE ExpectedArgs(_)
ExpectedArgs(S) ==
    IF S = {} THEN <<>>
    ELSE LET d == CHOOSE d \in S : \A e \in S : d <= e
         IN Expected(d) \o ExpectedArgs(S \ {d})
Expected(name) ==
    IF name = FieldName THEN FieldValue ELSE <<name>> \o ExpectedArgs(deps[Assigner(name)])

\* C5: the value every call ends with for an assigned name is the one value
\* the dependencies determine, whatever the priorities, the choice among ready
\* instructions and the times the futures report ready
C5_FinalValuesIndependent ==
    \A k \in 1..Len(results) :
        (Acyclic /\ FieldsBound) =>
            \A name \in insn_generated_vars : results[k][name] = Expected(name)

\* the chain a <- f(x), b <- g(a), c <- h(b) has run with the last instruction
\* preferred by priority and a future in the chain
C5_Witness ==
    /\ results # <<>>
    /\ \A insn \in Insns : deps[insn] = {insn - 1}
    /\ priority[MaxInsns] < priority[1]
    /\ \E insn \in Insns : yields_future[insn]

\* C6: the instruction a step executes is in the ready set and no instruction
\* in the ready set has a lower priority value
C6_LeastPriorityPicked ==
    [][\A insn \in Insns :
          ExecutesNow(insn) =>
              /\ insn \in exec_front
              /\ \A other \in exec_front : priority[insn] <= priority[other]]_vars

\* the first instruction was executed while an instruction of higher priority
\* value, ready from the start, was passed over
C6_Witness ==
    /\ executed = {last_insn}
    /\ \E other \in initial_exec_front \cap exec_front :
          priority[last_insn] < priority[other]

\* the step that calls a pending future because nothing is ready, with two or
\* more futures pending
ForcesWithSeveralPending ==
    /\ epc = "pick"
    /\ exec_front = {}
    /\ Len(futures) >= 2
    /\ epc' = "loop"

\* C7 as claimed: the future that is force-resolved is the oldest pending one
C7_OldestForced ==
    [][ForcesWithSeveralPending =>
          /\ futures' = Tail(futures)
          /\ context'[futures[1].target] = futures[1].value]_vars

\* C7 as amended: the future that is force-resolved is the newest pending one,
\* the entry pushed last; the older ones stay pending in their order
C7_NewestForced ==
    [][ForcesWithSeveralPending =>
          /\ futures' = SubSeq(futures, 1, Len(futures) - 1)
          /\ context'[futures[Len(futures)].target] = futures[Len(futures)].value
          /\ \A k \in 1..(Len(futures) - 1) : context'[futures[k].target] = Unbound]_vars

\* a future was force-resolved while an older one stays pending: the last
\* instruction executed returned a future, which is resolved, and the step
\* before was neither an execution nor the end of the loop
C7_Witness ==
    /\ epc = "loop"
    /\ futures # <<>>
    /\ last_insn # None
    /\ yields_future[last_insn]
    /\ context[last_insn] # Unbound

\* two fluxes of the template, each in an operand of the other
HasFluxTwoCycle ==
    \E f, g \in Fluxes : f # g /\ -g \in flux_operands[f] /\ -f \in flux_operands[g]

\* C8: compiling a template with a 2-cycle of flux dependencies ends in the
\* error that no flux evaluation order can be resolved, and in nothing else
C8_FluxCycleRaises == (HasFluxTwoCycle /\ cpc \notin {"idle", "batch"}) => cpc = "error"

\* C9: two calls of make_gpu_partition_greedy on the same graph, block size and
\* set iteration order return the same partition array and the same blocks
C9_SameResultAgain ==
    \A i, j \in 1..Len(returned) : returned[i] = returned[j]

\* the partitioner was called twice on a graph that takes several blocks
C9_Witness ==
    /\ Len(returned) >= 2
    /\ Len(ReturnedBlocks(2)) >= 2
    /\ \E a \in DOMAIN adjgraph : adjgraph[a] # {}

\* sets of element ids iterated in ascending order, as CPython iterates a set
\* of the ints 0..5
AscendingOrder == \A k \in 1..Len(order) : order[k] = k - 1

\* C10: for the path 0-1-2-3-4-5 and max_block_size 3 the partitioner returns
\* two blocks of three elements each; with the sets iterated in ascending
\* order of the ids the blocks are {0,1,2} and {3,4,5}
C10_PathBlocks ==
    \A k \in 1..Len(returned) :
        (adjgraph = PathGraph /\ max_block_size = 3) =>
            /\ Len(ReturnedBlocks(k)) = 2
            /\ \A i \in 1..2 : Cardinality(ReturnedBlocks(k)[i]) = 3
            /\ AscendingOrder =>
                  {ReturnedBlocks(k)[i] : i \in 1..2} = {{0, 1, 2}, {3, 4, 5}}

\* the partitioner returned for the path of six elements, block size 3 and
\* ascending iteration
C10_Witness ==
    /\ returned # <<>>
    /\ adjgraph = PathGraph
    /\ max_block_size = 3
    /\ AscendingOrder

\* the storage objects the builder made for boundary faces, by index
BoundaryStorages == {k \in 1..Len(storages) : storages[k].kind = "boundary"}

\* the storage objects the builder made
BuiltStorages == {k \in 1..Len(storages) : storages[k].kind # "loose"}

\* C11: once _build_face_storage_info has returned, every record f of the map
\* has an opposite, f.opposite.opposite is f, the opposite is the record of
\* another interior face or a boundary record, and f is the opposite of
\* exactly one record the builder made
C11_OppositesPaired ==
    face_info # <<>> =>
        \A el_face \in DOMAIN face_info[1].map :
            LET f == face_info[1].map[el_face]
            IN /\ storages[f].kind = "interior"
               /\ storages[f].el_face = el_face
               /\ storages[f].opposite # None
               /\ storages[f].opposite # f
               /\ storages[storages[f].opposite].kind \in {"interior", "boundary"}
               /\ storages[storages[f].opposite].opposite = f
               /\ Cardinality({g \in BuiltStorages : storages[g].opposite = f}) = 1

\* the builder has returned a map with an interior face pair and a boundary
\* face pair
C11_Witness ==
    /\ face_info # <<>>
    /\ int_pairs_done >= 1
    /\ bdry_pairs_done >= 1
    /\ Cardinality(DOMAIN face_info[1].map) >= 3

\* C12: the boundary faces get offsets that grow strictly in the order of
\* processing, each a multiple of the aligned number of nodes per face, with
\* ranges [offset, offset + aligned) that do not overlap; the returned
\* aligned_boundary_dof_count is the number of boundary faces times the
\* aligned number of nodes per face
C12_BoundaryOffsets ==
    /\ \A k \in BoundaryStorages :
          /\ storages[k].gpu_bdry_index_in_floats >= 0
          /\ storages[k].gpu_bdry_index_in_floats % aligned_fnc = 0
    /\ \A j, k \in BoundaryStorages :
          j < k =>
             /\ storages[j].gpu_bdry_index_in_floats < storages[k].gpu_bdry_index_in_floats
             /\ storages[j].gpu_bdry_index_in_floats + aligned_fnc
                    <= storages[k].gpu_bdry_index_in_floats
    /\ face_info # <<>> =>
          /\ face_info[1].aligned_boundary_dofs_per_face = aligned_fnc
          /\ face_info[1].aligned_boundary_dof_count
                 = Cardinality(BoundaryStorages) * aligned_fnc
          /\ \A k \in BoundaryStorages :
                storages[k].gpu_bdry_index_in_floats + aligned_fnc
                    <= face_info[1].aligned_boundary_dof_count

\* the builder has returned after two boundary faces, over more than one
\* face group, with more than one node per face
C12_Witness ==
    /\ face_info # <<>>
    /\ Cardinality(BoundaryStorages) >= 2
    /\ bdry_groups_done >= 1
    /\ aligned_fnc >= 2

\* a step that is a call of set_opposite: the builder has returned and no
\* storage object is made
SetOppositeStep ==
    /\ fpc = "done"
    /\ Len(storages') = Len(storages)
    /\ last_set' # <<>>

\* C15: an opposite that is set is never changed, neither by the builder nor
\* by set_opposite; set_opposite with a different record fails and leaves the
\* objects as they are, with the same record it is accepted, and on an object
\* without opposite it stores the record
C15_OppositeSetOnce ==
    [][/\ \A f \in 1..Len(storages) :
             storages[f].opposite # None => storages'[f].opposite = storages[f].opposite
       /\ SetOppositeStep =>
             LET self == last_set'[1]
                 opp == last_set'[2]
                 cur == storages[self].opposite
             IN /\ cur = None =>
                      /\ storages' = [storages EXCEPT ![self].opposite = opp]
                      /\ fpc' = "done"
                /\ (cur # None /\ cur # opp) =>
                      /\ storages' = storages
                      /\ fpc' = "error"
                /\ (cur # None /\ cur = opp) =>
                      /\ storages' = storages
                      /\ fpc' = "done"]_vars

\* set_opposite was called with a record other than the opposite the object
\* has from the builder, and failed
C15_Witness ==
    /\ fpc = "error"
    /\ last_set # <<>>
    /\ storages[last_set[1]].kind = "interior"
    /\ storages[last_set[1]].opposite # None
    /\ storages[last_set[1]].opposite # last_set[2]

\* the step that enters execute
CallsExecute == epc = "idle" /\ epc' = "loop"

\* C13: no step of execute changes the Code object (the instructions with
\* their dependencies and priorities, insns_depending_on, initial_exec_front),
\* and every call starts from the ready set __init__ computed and from a
\* context in which no assigned name is bound
C13_CodeUnchanged ==
    [][/\ deps' = deps
       /\ priority' = priority
       /\ yields_future' = yields_future
       /\ insns_depending_on' = insns_depending_on
       /\ insns_depending_on' = InsnsDependingOn(deps)
       /\ initial_exec_front' = initial_exec_front
       /\ initial_exec_front' = InitialExecFront(deps)
       /\ CallsExecute =>
             /\ exec_front' = InitialExecFront(deps)
             /\ futures' = <<>>
             /\ \A name \in insn_generated_vars : context'[name] = Unbound]_vars

\* a second call of execute is under way on a Code whose first call bound
\* names, and it has executed an instruction
C13_Witness ==
    /\ results # <<>>
    /\ \E name \in insn_generated_vars : results[1][name] # Unbound
    /\ epc = "loop"
    /\ executed # {}
    /\ exec_front # initial_exec_front

\* the instructions that read name and have every dependency bound in ctx
Unblocked(name, ctx) ==
    {cand \in Insns : name \in deps[cand] /\ \A dep \in deps[cand] : ctx[dep] # Unbound}

\* the names with a future in the list futs
PendingNames(futs) == {futs[k].target : k \in 1..Len(futs)}

\* a step that resolves futures: the poll at the head of the loop, or the
\* call of a future when nothing is ready
ResolvingStep == epc = "loop" \/ (epc = "pick" /\ exec_front = {})

\* C17: an instruction that returns a future puts its name on the list of
\* pending futures and binds nothing; the name gets bound, and its readers
\* get ready, in the step that resolves the future. A plain value is bound at
\* once and the readers that have all their dependencies bound get ready in
\* the same step. No instruction is ready while a name it reads is pending.
C17_FutureBoundOnResolve ==
    [][/\ \A insn \in Insns :
             ExecutesNow(insn) =>
                IF yields_future[insn]
                THEN /\ Len(futures') = Len(futures) + 1
                     /\ SubSeq(futures', 1, Len(futures)) = futures
                     /\ futures'[Len(futures')].target = insn
                     /\ context' = context
                     /\ context'[insn] = Unbound
                     /\ exec_front' = exec_front \ {insn}
                ELSE /\ futures' = futures
                     /\ context'[insn] # Unbound
                     /\ exec_front' = (exec_front \ {insn}) \cup Unblocked(insn, context')
       /\ \A name \in insn_generated_vars :
             (yields_future[Assigner(name)] /\ context[name] = Unbound
                  /\ context'[name] # Unbound) =>
                /\ ResolvingStep
                /\ name \in PendingNames(futures)
                /\ name \notin PendingNames(futures')
                /\ Unblocked(name, context') \subseteq exec_front'
       /\ \A cand \in exec_front' : \A dep \in deps[cand] :
             /\ context'[dep] # Unbound
             /\ dep \notin PendingNames(futures')]_vars

\* the poll resolved a future and an instruction that reads its name is in
\* the ready set, while another future is still pending
C17_Witness ==
    /\ epc = "pick"
    /\ futures # <<>>
    /\ \E insn \in exec_front : \E dep \in deps[insn] :
          /\ dep \in insn_generated_vars
          /\ yields_future[Assigner(dep)]
          /\ context[dep] # Unbound

\* the futures that hold the stream s and have not been called
UnresolvedOn(s) ==
    {f \in 1..Len(stream_futures) :
        stream_futures[f].stream = s /\ ~stream_futures[f].resolved}

\* the step in which the future f is resolved
Resolves(f) ==
    /\ f \in 1..Len(stream_futures)
    /\ ~stream_futures[f].resolved
    /\ stream_futures'[f].resolved

\* the streams of the pool, as a set
PooledStreams == {stream_pool[k] : k \in 1..Len(stream_pool)}

\* C14, the pool: every stream of the pool is synchronized (no work enqueued
\* on it is outstanding), no stream is in the pool while a future that took
\* it is unresolved, no stream is in the pool twice and no two unresolved
\* futures share a stream
StreamPoolSafe ==
    /\ \A s \in PooledStreams :
          /\ ~stream_busy[s]
          /\ UnresolvedOn(s) = {}
    /\ \A j, k \in 1..Len(stream_pool) : stream_pool[j] = stream_pool[k] => j = k
    /\ \A s \in DOMAIN stream_busy : Cardinality(UnresolvedOn(s)) <= 1

\* C14: a stream is appended to the pool only by the call that resolves the
\* future holding it, which has synchronized the stream; and the pool is safe
\* in the sense above before and after every step
C14_ReleaseAfterSynchronize ==
    [][/\ StreamPoolSafe /\ StreamPoolSafe'
       /\ \A f \in 1..Len(stream_futures) :
             Resolves(f) =>
                /\ stream_pool' = Append(stream_pool, stream_futures[f].stream)
                /\ ~stream_busy'[stream_futures[f].stream]
       /\ Len(stream_pool') > Len(stream_pool) =>
             \E f \in 1..Len(stream_futures) : Resolves(f)]_vars

\* a future was resolved while the work on its stream was outstanding, its
\* stream is in the pool, and a later future holds a stream taken from the
\* pool
C14_Witness ==
    /\ stream_pool # <<>>
    /\ \E f, g \in 1..Len(stream_futures) :
          /\ f < g
          /\ stream_futures[f].resolved
          /\ ~stream_futures[g].resolved
          /\ stream_futures[f].stream = stream_futures[g].stream
          /\ stream_busy[stream_futures[g].stream]
    /\ \E f \in 1..Len(stream_futures) :
          stream_futures[f].resolved /\ stream_futures[f].stream \in PooledStreams

\* the nodes without neighbours
IsolatedNodes == {node \in DOMAIN adjgraph : adjgraph[node] = {}}

\* C16 as claimed: a node without neighbours ends up as a block of its own
C16_IsolatedSingleton ==
    \A k \in 1..Len(returned) : \A node \in IsolatedNodes :
        \E i \in 1..Len(ReturnedBlocks(k)) : ReturnedBlocks(k)[i] = {node}

\* C16 as amended: for a graph with a node without neighbours every call
\* returns, and the node is in exactly one block, which has no more than
\* max_block_size elements and is the block the partition array names; the
\* block is the node alone when max_block_size is 1 or there is no other node
C16_IsolatedInOneBlock ==
    /\ [](\A k \in 1..Len(returned) : \A node \in IsolatedNodes :
            /\ Cardinality({i \in 1..Len(ReturnedBlocks(k)) :
                               node \in ReturnedBlocks(k)[i]}) = 1
            /\ node \in ReturnedBlocks(k)[ReturnedPartition(k)[node] + 1]
            /\ Cardinality(ReturnedBlocks(k)[ReturnedPartition(k)[node] + 1]) <= max_block_size
            /\ (max_block_size = 1 \/ DOMAIN adjgraph = {node}) =>
                  ReturnedBlocks(k)[ReturnedPartition(k)[node] + 1] = {node})
    /\ ((IsolatedNodes # {} /\ ppc # "idle") ~> (ppc = "idle"))

\* a call returned a block in which a node without neighbours sits together
\* with other nodes
C16_Witness ==
    /\ returned # <<>>
    /\ \E node \in IsolatedNodes :
          Cardinality(ReturnedBlocks(1)[ReturnedPartition(1)[node] + 1]) >= 2

\* the queue position bfs takes next: the earliest entry with the largest
\* number of edges to the block grown so far
PickedIdx ==
    CHOOSE k \in 1..Len(queue) :
        /\ \A j \in 1..Len(queue) :
              num_connections_to_result(queue[j], result)
                  <= num_connections_to_result(queue[k], result)
        /\ \A j \in 1..(k - 1) :
              num_connections_to_result(queue[j], result)
                  < num_connections_to_result(queue[k], result)

\* the queue without the entry taken, and what the step appended to it
QueueRest == RemoveAt(queue, PickedIdx)
AppendedToQueue == SubSeq(queue', Len(QueueRest) + 1, Len(queue'))

\* C18 as claimed: every step of bfs takes the earliest entry of the largest
\* number of edges to the block, adds that node, which was unassigned, to the
\* block, and appends its unassigned neighbours to the queue
C18_AddsAndEnqueuesUnassigned ==
    [][ppc = "bfs" =>
          /\ queue[PickedIdx] \in avail_nodes
          /\ result' = result \cup {queue[PickedIdx]}
          /\ Len(queue') >= Len(QueueRest)
          /\ SubSeq(queue', 1, Len(QueueRest)) = QueueRest
          /\ \A k \in 1..Len(AppendedToQueue) : AppendedToQueue[k] \in avail_nodes']_vars

\* C18 as amended: every step of bfs takes the earliest entry of the largest
\* number of edges to the block off the queue. If that node is unassigned it
\* joins the block and, unless the block is full now, all its neighbours,
\* assigned or not, are appended to the queue; if it is assigned already it is
\* dropped. An empty queue is refilled with one unassigned node. Only
\* unassigned nodes join the block.
C18_GreedyStep ==
    [][ppc = "bfs" =>
          /\ Len(queue') >= Len(QueueRest)
          /\ SubSeq(queue', 1, Len(QueueRest)) = QueueRest
          /\ result' \ result \subseteq avail_nodes
          /\ IF queue[PickedIdx] \in avail_nodes
             THEN /\ result' = result \cup {queue[PickedIdx]}
                  /\ avail_nodes' = avail_nodes \ {queue[PickedIdx]}
                  /\ IF Cardinality(result') = max_block_size
                     THEN AppendedToQueue = <<>> /\ ppc' = "outer"
                     ELSE IF QueueRest = <<>> /\ adjgraph[queue[PickedIdx]] = {}
                          THEN IF avail_nodes' = {}
                               THEN AppendedToQueue = <<>> /\ ppc' = "outer"
                               ELSE /\ Len(AppendedToQueue) = 1
                                    /\ AppendedToQueue[1] \in avail_nodes'
                                    /\ ppc' = "bfs"
                          ELSE /\ Len(AppendedToQueue) = Cardinality(adjgraph[queue[PickedIdx]])
                               /\ {AppendedToQueue[k] : k \in 1..Len(AppendedToQueue)}
                                      = adjgraph[queue[PickedIdx]]
                               /\ ppc' = "bfs"
             ELSE /\ result' = result
                  /\ avail_nodes' = avail_nodes
                  /\ IF QueueRest = <<>>
                     THEN IF avail_nodes = {}
                          THEN AppendedToQueue = <<>> /\ ppc' = "outer"
                          ELSE /\ Len(AppendedToQueue) = 1
                               /\ AppendedToQueue[1] \in avail_nodes
                               /\ ppc' = "bfs"
                     ELSE AppendedToQueue = <<>> /\ ppc' = "bfs"]_vars

\* bfs has added two nodes to the block and its queue holds a node that is
\* assigned already next to one that is not, the two tied in their number of
\* edges to the block
C18_Witness ==
    /\ ppc = "bfs"
    /\ Cardinality(result) >= 2
    /\ \E j, k \in 1..Len(queue) :
          /\ queue[j] \notin avail_nodes
          /\ queue[k] \in avail_nodes
          /\ num_connections_to_result(queue[j], result)
                 = num_connections_to_result(queue[k], result)

\* the least number of blocks of max_block_size elements that hold n elements
CeilDiv(n, d) == (n + d - 1) \div d

\* C19: a block is closed only with exactly max_block_size elements or when no
\* unassigned element is left, so every block but the last is full, and a
\* call returns ceil(n / max_block_size) blocks
C19_BlocksFullButLast ==
    /\ \A i \in 1..Len(blocks) :
          \/ Cardinality(blocks[i]) = max_block_size
          \/ i = Len(blocks) /\ avail_nodes = {}
    /\ \A k \in 1..Len(returned) :
          /\ Len(ReturnedBlocks(k)) = CeilDiv(Cardinality(DOMAIN adjgraph), max_block_size)
          /\ \A i \in 1..(Len(ReturnedBlocks(k)) - 1) :
                Cardinality(ReturnedBlocks(k)[i]) = max_block_size

\* a call returned a full block that holds a node with no edge to the rest of
\* its block (growth went on from a leftover node), and a last block that is
\* not full
C19_Witness ==
    /\ returned # <<>>
    /\ Len(ReturnedBlocks(1)) >= 2
    /\ Cardinality(ReturnedBlocks(1)[Len(ReturnedBlocks(1))]) < max_block_size
    /\ \E node \in ReturnedBlocks(1)[1] :
          /\ adjgraph[node] \cap ReturnedBlocks(1)[1] = {}
          /\ ReturnedBlocks(1)[1] # {node}

\* C20: in what a call returns, partition[e] = i exactly when e is in
\* blocks[i] (ids counted from 0), no block is empty, and the ids in the
\* partition array are exactly 0..len(blocks)-1
C20_PartitionMatchesBlocks ==
    \A k \in 1..Len(returned) :
        /\ DOMAIN ReturnedPartition(k) = DOMAIN adjgraph
        /\ \A el \in DOMAIN adjgraph : \A i \in 0..(Len(ReturnedBlocks(k)) - 1) :
              ReturnedPartition(k)[el] = i <=> el \in ReturnedBlocks(k)[i + 1]
        /\ \A i \in 1..Len(ReturnedBlocks(k)) : ReturnedBlocks(k)[i] # {}
        /\ {ReturnedPartition(k)[el] : el \in DOMAIN adjgraph}
               = 0..(Len(ReturnedBlocks(k)) - 1)

\* a call returned three blocks
C20_Witness ==
    /\ returned # <<>>
    /\ Len(ReturnedBlocks(1)) >= 3
    /\ \E el \in DOMAIN adjgraph : ReturnedPartition(1)[el] = 2

\* C23: in one run of execute no instruction is executed twice: the
\* instruction a step executes has not been executed in this run, and an
\* executed instruction is never in the ready set
C23_ExecutedOnce ==
    [][/\ \A insn \in Insns : ExecutesNow(insn) => insn \notin executed
       /\ exec_front' \cap executed' = {}]_vars

\* every instruction of a Code with dependencies among the instructions and a
\* future has been executed, and the run goes on
C23_Witness ==
    /\ executed = Insns
    /\ futures # <<>>
    /\ \E insn \in Insns : deps[insn] \cap insn_generated_vars # {}
    /\ epc = "loop"

\* C28: a future is on the pending list from the step that executes its
\* instruction until it is resolved; it is resolved once, in the step that
\* takes it off the list, no future is on the list twice, and a run ends
\* with every future it made resolved
C28_FutureResolvedOnce ==
    [][/\ \A k \in 1..Len(futures) : context[futures[k].target] = Unbound
       /\ \A j, k \in 1..Len(futures') : futures'[j].target = futures'[k].target => j = k
       /\ \A name \in PendingNames(futures) :
             IF name \in PendingNames(futures')
             THEN context'[name] = Unbound
             ELSE context'[name] # Unbound /\ ResolvingStep
       /\ \A name \in insn_generated_vars :
             (context[name] # Unbound /\ ~CallsExecute) =>
                /\ context'[name] = context[name]
                /\ name \notin PendingNames(futures')
       /\ (epc = "loop" /\ epc' = "idle") =>
             /\ futures = <<>>
             /\ \A insn \in executed : yields_future[insn] => context[insn] # Unbound]_vars

\* a run has ended in which one future was resolved by the poll while
\* another stayed pending and was resolved later
C28_Witness ==
    /\ epc = "idle"
    /\ results # <<>>
    /\ Cardinality({insn \in executed : yields_future[insn]}) >= 2
    /\ \A insn \in Insns : context[insn] # Unbound

\* C27, safety part: bfs never returns an empty block
NoEmptyBlock == \A i \in 1..Len(blocks) : blocks[i] # {}

\* C27: every call of bfs returns, with a block that is not empty, and every
\* call of make_gpu_partition_greedy returns, whatever stale entries the
\* queue holds
C27_PartitionTerminates ==
    /\ []NoEmptyBlock
    /\ ((ppc = "bfs") ~> (ppc = "outer"))
    /\ ((ppc = "outer") ~> (ppc = "idle"))

\* bfs is running with nothing but entries of assigned nodes in its queue,
\* while unassigned nodes remain
C27_Witness ==
    /\ ppc = "bfs"
    /\ queue # <<>>
    /\ \A k \in 1..Len(queue) : queue[k] \notin avail_nodes
    /\ avail_nodes # {}

\* the elements of the microblocks of a block, one after the other
RECURSIVE Flattened(_)
Flattened(microblocks) ==
    IF microblocks = <<>> THEN <<>>
    ELSE Head(microblocks) \o Flattened(Tail(microblocks))

\* the elements the partition assigns to a block number
ElementsOf(block_num) == {el \in ElIds(el_partition) : el_partition[el + 1] = block_num}

\* the microblocks of a block are non-empty, disjoint, cover the elements of
\* the block, hold mb_elements elements each but for a shorter last one, and
\* el_number_map counts the elements in microblock order
WellBuilt(block) ==
    LET mbs == block.microblocks
        flat == Flattened(mbs)
    IN  /\ \A m \in DOMAIN mbs :
              /\ Len(mbs[m]) >= 1
              /\ Len(mbs[m]) <= mb_elements
              /\ m < Len(mbs) => Len(mbs[m]) = mb_elements
        /\ \A i, j \in DOMAIN flat : i # j => flat[i] # flat[j]
        /\ {flat[i] : i \in DOMAIN flat} = ElementsOf(block.number)
        /\ DOMAIN block.el_number_map = ElementsOf(block.number)
        /\ \A i \in DOMAIN flat : block.el_number_map[flat[i]] = i - 1
        /\ \A el \in ElementsOf(block.number) :
              LET idx == el_mb_index(block, el)
              IN  mbs[idx[1] + 1][idx[2] + 1] = el

\* C25: every block _build_blocks makes has non-empty, pairwise disjoint
\* microblocks that hold exactly the elements the partition assigns to the
\* block, each of at most given.microblock.elements elements and all but the
\* last of exactly that many, with el_number_map numbering the elements
\* 0, 1, 2, ... in microblock order; the list returned has one block for every
\* block number of the partition.
C25_MicroblocksCoverBlock ==
    /\ \A b \in DOMAIN gpu_blocks :
          /\ gpu_blocks[b].number = b - 1
          /\ WellBuilt(gpu_blocks[b])
    /\ bpc = "done" =>
          {gpu_blocks[b].number : b \in DOMAIN gpu_blocks}
              = {el_partition[i] : i \in DOMAIN el_partition}

\* a block of three elements was built as a full microblock and a shorter one,
\* next to a second block
C25_Witness ==
    /\ bpc = "done"
    /\ Len(gpu_blocks) = 2
    /\ \E b \in DOMAIN gpu_blocks :
          /\ Len(gpu_blocks[b].microblocks) = 2
          /\ Len(gpu_blocks[b].microblocks[1]) = 2
          /\ Len(gpu_blocks[b].microblocks[2]) = 1

\* the keys and values an instruction's assignees are to be bound to
AssigneeBindings(insn) == {Binding(insn.names[i]) : i \in DOMAIN insn.names}

\* C26: for every instruction kind, once lines 282-286 of Code.execute are
\* through with the instruction, the context binds exactly the names of
\* get_assignees(), one value per name, and no exception was raised: what the
\* exec_* method returned is a sequence of (name, value) pairs.
C26_BindsAssignees ==
    mpc \in {"done", "error"} =>
        /\ mpc = "done"
        /\ m_context = AssigneeBindings(m_insn)

\* the flux batch a flux was put in
BatchOf(f) == BatchIndex(flux_batches, f)

\* the fluxes the operands of a flux hold
NestedFluxes(f) == {-d : d \in flux_operands[f]}

\* C21: the dependencies of every flux record hold the fluxes that occur in
\* the operands of its flux; once every flux is batched, a flux that occurs in
\* an operand of the flux F is in a batch strictly earlier in flux_batches
\* than the batch of F; no batch holds fluxes of two kinds.
C21_BatchesRespectNesting ==
    cpc # "idle" =>
        /\ \A f \in Fluxes : NestedFluxes(f) \subseteq fr_dependencies[RecordOf(f)]
        /\ (flux_queue = <<>> /\ cpc # "error") =>
              \A f \in Fluxes : \A g \in NestedFluxes(f) : BatchOf(g) < BatchOf(f)
        /\ \A b \in DOMAIN flux_batches :
              \A f, g \in flux_batches[b].flux_exprs : flux_kind[f] = flux_kind[g]

\* the walk of the template came to its end
Walked == cpc \in {"done", "assert"}

\* the nodes of the template the compiler keeps a variable for
TrackedNodes ==
    {s \in UNION {Subterms(optemplate[i]) : i \in DOMAIN optemplate} :
        s[1] \in {"diff", "mass", "recv", "flux", "cse"}}

\* the key of expr_to_var a node is kept under
KeyOf(node) == IF node[1] = "cse" THEN node[2] ELSE node

\* the instructions that assign a name
AssignedBy(name) == {i \in DOMAIN code : \E k \in DOMAIN code[i].names : code[i].names[k] = name}

\* the compiler as the walk left it, mapping one more expression
MappedAgain(node) ==
    rec(node, CompilerState(code, assigned_var_count, expr_to_var),
        [flux_batches |-> flux_batches,
         flux_order |-> Ascending(Fluxes),
         diff_ops |-> BoundOperatorCollector("diff", optemplate, FALSE),
         flux_receive_ops |-> BoundOperatorCollector("recv", optemplate, FALSE)])

\* C22: mapping a differentiation, mass, flux-receive, planned-flux or
\* common-subexpression node the compiler has mapped before returns the
\* variable expr_to_var holds for it and leaves the code list and the name
\* counter as they are; that variable is assigned by exactly one instruction,
\* and every name a batched, mass or flux instruction assigns is the variable
\* of a node, so no node was assigned twice; after the walk every such node
\* of the template has its variable.
C22_MappedOnce ==
    /\ \A node \in TrackedNodes :
          KeyOf(node) \in DOMAIN expr_to_var =>
              /\ MappedAgain(node).val = expr_to_var[KeyOf(node)]
              /\ MappedAgain(node).st.code = code
              /\ MappedAgain(node).st.assigned_var_count = assigned_var_count
              /\ expr_to_var[KeyOf(node)][2] >= 0 =>
                    Cardinality(AssignedBy(expr_to_var[KeyOf(node)][2])) = 1
    /\ \A i \in DOMAIN code : \A k \in DOMAIN code[i].names :
          \/ \E key \in DOMAIN expr_to_var : expr_to_var[key] = Var(code[i].names[k])
          \/ code[i].kind = "Assign"
    /\ Walked => \A node \in TrackedNodes : KeyOf(node) \in DOMAIN expr_to_var

\* a template whose components are the same mass node twice was compiled to
\* one instruction
C22_Witness ==
    /\ cpc = "done"
    /\ Len(optemplate) = 2
    /\ optemplate[1] = optemplate[2]
    /\ optemplate[1][1] = "mass"
    /\ Len(code) = 1

\* C24: every dependency of every instruction the compiler emits is a
\* Variable and the assertion of Code.__init__ does not fail, also for a mass
\* or flux-receive operator bound to a compound field expression.
C24_DependenciesAreVariables ==
    /\ cpc # "assert"
    /\ DependenciesAreVariables(code)

\* C29: the names the instructions of the code list assign are pairwise
\* distinct, across the instructions and within a batched instruction, and
\* each was returned by get_var_name.
C29_NamesDistinct ==
    /\ \A i, j \in DOMAIN code :
          \A k \in DOMAIN code[i].names : \A l \in DOMAIN code[j].names :
              code[i].names[k] = code[j].names[l] => (i = j /\ k = l)
    /\ \A i \in DOMAIN code : \A k \in DOMAIN code[i].names :
          code[i].names[k] \in 0..(assigned_var_count - 1)

\* the second Code of a compiler instance, with an instruction that is a
\* batch of two names and a top-level assignment made by each call
C29_Witness ==
    /\ cpc = "done"
    /\ compile_calls = 2
    /\ Cardinality({i \in DOMAIN code : code[i].kind = "Assign"}) >= 2
    /\ Len(code) >= 2
    /\ \E i \in DOMAIN code : Len(code[i].names) = 2

\* C30: in a compiled Code every instruction comes after the instructions
\* that assign its dependencies, and a non-empty instruction list has an
\* instruction in initial_exec_front.
C30_TopologicalOrder ==
    cpc = "done" =>
        /\ \A i \in DOMAIN code : \A dep \in code[i].dependencies :
              dep \in GeneratedVars(code) =>
                  \E j \in 1..(i - 1) : \E k \in DOMAIN code[j].names :
                      Var(code[j].names[k]) = dep
        /\ code # <<>> => CodeInitialExecFront(code) # {}

\* a Code in which an instruction depends on a variable an earlier one assigns
C30_Witness ==
    /\ cpc = "done"
    /\ \E i \in DOMAIN code : code[i].dependencies \cap GeneratedVars(code) # {}

====
